---- MODULE Spec2Model ----
(***************************************************************************)
(* Azure DevOps Test Plans REST API server (src/src/server.ts) and the      *)
(* recommendation service (src/src/AzureOpenAIService.ts).                 *)
(*                                                                         *)
(* State: the nullable vendor client reference, the two in-memory          *)
(* registries, the position of startServer(), the requests suspended on    *)
(* the vendor fetch, the request/response/adapter-call record of the       *)
(* request handled last, and the completion and outcome of the last call   *)
(* of the recommendation service.                                          *)
(*                                                                         *)
(* Optional JavaScript values (undefined or a value) are sequences of      *)
(* length at most one: <<>> is undefined, <<v>> is v.                      *)
(***************************************************************************)
EXTENDS Integers, Sequences, FiniteSets, TLC

VARIABLES
    adoClient,    \* "null" or "client": the module-level reference
    adapter,      \* the vendor adapter object: "none", "initializing", "ready", "failed"
    pc,           \* startServer(): "start", "initializing", "listening", "exited"
    exitCode,     \* <<>> while the process lives, <<code>> after process.exit(code)
    connections,  \* Map<string, Connection>: resourceId -> <<>> or <<connection>>
    testSuites,   \* Map<string, TestSuite[]>: resourceId -> <<>> or <<list of suites>>
    pending,      \* ado_plans requests suspended on getAllTestPlans: set of requests
    request,      \* the request handled last
    response,     \* the response sent last
    calls,        \* vendor adapter calls made for the request handled last
    saved,        \* history: resourceId -> <<>> or <<what the last successful save stored and returned>>
    fetched,      \* <<>> or <<what the awaited adapter call of the request handled last settled with>>
    completion,   \* AzureOpenAIService: <<>> or <<what the last chat completion settled with>>
    recommended,  \* AzureOpenAIService: <<>> or <<what the last generateTestPlanRecommendations settled with>>
    overlapped    \* history: the ado_plans requests during whose suspension createIssue stored a list for their resourceId

vars == <<adoClient, adapter, pc, exitCode, connections, testSuites, pending,
          request, response, calls, saved, fetched, completion, recommended, overlapped>>

(***************************************************************************)
(* Bounds of the model.                                                    *)
(***************************************************************************)
MaxPlans == 2      \* longest list of test plans the vendor returns
MaxSuites == 2     \* longest mock-suite list a createIssue may still append to
MaxSmallIds == 2   \* longest ids array enumerated element by element

None == <<>>
Some(v) == <<v>>
IsSome(o) == o # <<>>
Get(o) == o[1]

\* JavaScript truthiness of an optional string: undefined and "" are falsy.
Falsy(o) == o = None \/ o = Some("")

Range(s) == {s[i] : i \in DOMAIN s}

(***************************************************************************)
(* parseInt(string) with no radix, as the handlers call it.  A string is    *)
(* known to the model by its spelling, a sequence of characters.            *)
(***************************************************************************)
Chars(s) ==
    CASE s = "12"    -> <<"1", "2">>
      [] s = "7"     -> <<"7">>
      [] s = "-7"    -> <<"-", "7">>
      [] s = "abc"   -> <<"a", "b", "c">>
      [] s = "12abc" -> <<"1", "2", "a", "b", "c">>
      [] s = "1.5"   -> <<"1", ".", "5">>
      [] s = "0x1f"  -> <<"0", "x", "1", "f">>
      [] s = " 12"   -> <<" ", "1", "2">>
      [] s = "-"     -> <<"-">>
      [] OTHER       -> <<"w">>   \* every other string of the model is a word: no digit in front

HexDigits == <<"0", "1", "2", "3", "4", "5", "6", "7", "8", "9",
               "a", "b", "c", "d", "e", "f">>

DigitVal(c) == (CHOOSE i \in 1..16 : HexDigits[i] = c) - 1
IsDigit(c, radix) == \E i \in 1..radix : HexDigits[i] = c

NaN == [nan |-> TRUE, val |-> 0]
Num(n) == [nan |-> FALSE, val |-> n]
isNaN(v) == v.nan

\* The longest prefix of cs that consists of digits of the radix.
RECURSIVE DigitPrefix(_, _)
DigitPrefix(cs, radix) ==
    IF cs = <<>> \/ ~IsDigit(Head(cs), radix) THEN <<>>
    ELSE <<Head(cs)>> \o DigitPrefix(Tail(cs), radix)

RECURSIVE DigitsValue(_, _, _)
DigitsValue(ds, radix, acc) ==
    IF ds = <<>> THEN acc
    ELSE DigitsValue(Tail(ds), radix, acc * radix + DigitVal(Head(ds)))

RECURSIVE SkipSpace(_)
SkipSpace(cs) == IF cs # <<>> /\ Head(cs) = " " THEN SkipSpace(Tail(cs)) ELSE cs

ParseIntChars(cs0) ==
    LET cs1 == SkipSpace(cs0)
        neg == cs1 # <<>> /\ Head(cs1) = "-"
        cs2 == IF cs1 # <<>> /\ Head(cs1) \in {"-", "+"} THEN Tail(cs1) ELSE cs1
        hex == Len(cs2) >= 2 /\ cs2[1] = "0" /\ cs2[2] = "x"
        radix == IF hex THEN 16 ELSE 10
        cs3 == IF hex THEN Tail(Tail(cs2)) ELSE cs2
        ds == DigitPrefix(cs3, radix)
        n == DigitsValue(ds, radix, 0)
    IN  IF ds = <<>> THEN NaN ELSE Num(IF neg THEN 0 - n ELSE n)

parseInt(s) == ParseIntChars(Chars(s))

\* A decimal integer numeral: an optional minus sign and decimal digits only.
IsIntegerNumeral(s) ==
    LET cs == Chars(s)
        ds == IF cs # <<>> /\ Head(cs) = "-" THEN Tail(cs) ELSE cs
    IN  ds # <<>> /\ \A i \in DOMAIN ds : IsDigit(ds[i], 10)

\* Number.prototype.toString of the plan ids the vendor returns.
NumberToString(n) ==
    CASE n = 0 -> "0"
      [] n = 1 -> "1"
      [] n = 2 -> "2"
      [] n = 7 -> "7"
      [] n = 12 -> "12"
      [] n = 31 -> "31"
      [] n = -7 -> "-7"
      [] OTHER -> "n"


(***************************************************************************)
(* The Express stack: the routes and the catch-all in registration order.  *)
(* A path is the sequence of its segments; a pattern segment that starts   *)
(* with ":" is a parameter.                                                *)
(***************************************************************************)
ParamNames == {":id", ":planId", ":suiteId", ":buildId", ":resourceId", ":testCaseId"}

Layers == <<
    [method |-> "GET",    pattern |-> <<"health">>,                          handler |-> "health"],
    [method |-> "GET",    pattern |-> <<>>,                                  handler |-> "root"],
    [method |-> "GET",    pattern |-> <<"api", "testplans">>,                handler |-> "getAllTestPlans"],
    [method |-> "GET",    pattern |-> <<"api", "testplans", ":id">>,         handler |-> "getTestPlan"],
    [method |-> "POST",   pattern |-> <<"api", "testplans">>,                handler |-> "createTestPlan"],
    [method |-> "PUT",    pattern |-> <<"api", "testplans", ":id">>,         handler |-> "updateTestPlan"],
    [method |-> "DELETE", pattern |-> <<"api", "testplans", ":id">>,         handler |-> "deleteTestPlan"],
    [method |-> "POST",   pattern |-> <<"api", "testcases">>,                handler |-> "createTestCase"],
    [method |-> "GET",    pattern |-> <<"api", "testcases", ":id">>,         handler |-> "getTestCase"],
    [method |-> "POST",   pattern |-> <<"api", "testcases", "batch">>,       handler |-> "batchTestCases"],
    [method |-> "POST",   pattern |-> <<"api", "testplans", ":planId", "suites", ":suiteId", "testcases">>,
                                                                             handler |-> "addTestCasesToSuite"],
    [method |-> "GET",    pattern |-> <<"api", "testplans", ":planId", "suites", ":suiteId", "testcases">>,
                                                                             handler |-> "getSuiteTestCases"],
    [method |-> "GET",    pattern |-> <<"api", "builds", ":buildId", "testresults">>,
                                                                             handler |-> "getBuildTestResults"],
    [method |-> "ALL",    pattern |-> <<"*">>,                               handler |-> "notFound"],
    [method |-> "POST",   pattern |-> <<":resourceId", "saveConnection">>,   handler |-> "saveConnection"],
    [method |-> "GET",    pattern |-> <<":resourceId">>,                     handler |-> "getConnection"],
    [method |-> "GET",    pattern |-> <<":resourceId", "ado_plans">>,        handler |-> "adoPlans"],
    [method |-> "POST",   pattern |-> <<":resourceId", "createIssue", ":testCaseId">>,
                                                                             handler |-> "createIssue"]
>>

PatternMatches(pattern, path) ==
    \/ pattern = <<"*">>
    \/ /\ Len(pattern) = Len(path)
       /\ \A i \in DOMAIN pattern : pattern[i] \in ParamNames \/ pattern[i] = path[i]

LayerMatches(layer, method, path) ==
    /\ layer.method \in {"ALL", method}
    /\ PatternMatches(layer.pattern, path)

\* The handler of the first layer, in registration order, that matches.
Route(method, path) ==
    LET hits == {i \in DOMAIN Layers : LayerMatches(Layers[i], method, path)}
    IN  IF hits = {} THEN "finalhandler"
        ELSE Layers[CHOOSE i \in hits : \A j \in hits : i <= j].handler

\* The pattern a handler is registered under.
LayerOf(h) == Layers[CHOOSE i \in DOMAIN Layers : Layers[i].handler = h]

(***************************************************************************)
(* Requests.                                                               *)
(***************************************************************************)
ResourceIds == {"r1", "r2"}
IdStrings == {"12", "-7", "abc", "12abc", "1.5", "0x1f"}

\* A JSON number is kept as twice its value, so that 1.5 is a number that is
\* no integer.
JNum(twice) == [type |-> "number", twice |-> twice]
JStr == [type |-> "string", twice |-> 0]
NumberIsInteger(v) == v.type = "number" /\ v.twice % 2 = 0
GreaterThanZero(v) == v.type = "number" /\ v.twice > 0

JArray(elems) == [type |-> "array", elems |-> elems]
JOther(t) == [type |-> t, elems |-> <<>>]
ArrayIsArray(v) == v.type = "array"

EmptyBody == [
    name |-> None, iteration |-> None, title |-> None, testCaseIds |-> None,
    ids |-> JOther("undefined"),
    github_url |-> None, prd |-> None, ado_url |-> None, website_url |-> None,
    body |-> None, testPlanId |-> None ]

NoQuery == [filterActivePlans |-> None, includePlanDetails |-> None]

Req(via, method, path, query, body) ==
    [kind |-> "http", via |-> via, method |-> method, path |-> path,
     query |-> query, body |-> body]

\* req.originalUrl / req.path as the model spells it.
OriginalUrl(req) == req.path

(***************************************************************************)
(* Responses and the vendor adapter.                                       *)
(***************************************************************************)
Json(h, status, body) == [handler |-> h, status |-> status, body |-> body]

Call(method, args) == [method |-> method, args |-> args]

\* What an awaited adapter call can do: resolve, or reject with an error that
\* may carry a message and a statusCode.
ThrownErrors == {
    [message |-> Some("vendor failure"), statusCode |-> None],
    [message |-> None, statusCode |-> Some(404)] }

NoError == [message |-> None, statusCode |-> None]

\* empty: the call resolved with null (a single entity) or with nothing in it.
Outcomes ==
    {[ok |-> TRUE, empty |-> e, error |-> NoError] : e \in BOOLEAN}
    \cup {[ok |-> FALSE, empty |-> FALSE, error |-> e] : e \in ThrownErrors}

\* What a handler did: the response it sent and the adapter calls it made.
Done(resp, cs) == [resp |-> resp, calls |-> cs]

\* errorHandler answering 500 whatever the error carries.
errorHandlerAlways500(error, req) ==
    LET message == IF ~Falsy(error.message) THEN Get(error.message) ELSE "Internal server error"
    IN  Json("errorHandler", 500,
             [error |-> "API Error", message |-> <<message>>,
              timestamp |-> "now", path |-> OriginalUrl(req)])

\* errorHandler: the formatter next(error) leads to.
errorHandler(error, req) ==
    LET statusCode == IF IsSome(error.statusCode) THEN Get(error.statusCode) ELSE 500
        message == IF ~Falsy(error.message) THEN Get(error.message) ELSE "Internal server error"
    IN  Json("errorHandler", statusCode,
             [error |-> "API Error", message |-> <<message>>,
              timestamp |-> "now", path |-> OriginalUrl(req)])

\* ensureClientInitialized: TRUE when the request is let through.
ensureClientInitialized == adoClient # "null"

GateResponse ==
    Json("ensureClientInitialized", 500,
         [error |-> "Azure DevOps client not initialized",
          message |-> <<"Server is starting up, please try again in a moment">>])

(***************************************************************************)
(* Process start and exit.                                                 *)
(***************************************************************************)
Alive == exitCode = None

\* process.exit(code)
Exit(code) ==
    /\ pc' = "exited"
    /\ exitCode' = Some(code)

\* startServer() calling app.listen before it starts the adapter.
ConstructListeningFirst ==
    /\ pc = "start"
    /\ adapter' = "none"
    /\ pc' = "listening"
    /\ UNCHANGED <<adoClient, exitCode>>
    /\ UNCHANGED <<connections, testSuites, pending, request, response, calls, saved,
                   fetched,
                   completion, recommended, overlapped>>

\* startServer() up to the first suspension: the module body runs it
\* synchronously, so no request is handled before it.
Construct ==
    /\ pc = "start"
    /\ \/ /\ adoClient' = "client"
          /\ adapter' = "initializing"
          /\ pc' = "initializing"
          /\ UNCHANGED exitCode
       \/ /\ adapter' = "failed"
          /\ Exit(1)
          /\ UNCHANGED adoClient
    /\ UNCHANGED <<connections, testSuites, pending, request, response, calls, saved,
                   fetched,
                   completion, recommended, overlapped>>

\* initialize() resolves: startServer goes on to app.listen.
InitializeResolved ==
    /\ pc = "initializing"
    /\ adapter' = "ready"
    /\ pc' = "listening"
    /\ UNCHANGED <<adoClient, exitCode, connections, testSuites, pending,
                   request, response, calls, saved, fetched,
                   completion, recommended, overlapped>>

\* InitializeRejected with the error only logged: startServer goes on.
InitializeRejectedContinues ==
    /\ pc = "initializing"
    /\ adapter' = "failed"
    /\ pc' = "listening"
    /\ UNCHANGED <<adoClient, exitCode, connections, testSuites, pending,
                   request, response, calls, saved, fetched,
                   completion, recommended, overlapped>>

\* initialize() rejects: the catch block ends the process.
InitializeRejected ==
    /\ pc = "initializing"
    /\ adapter' = "failed"
    /\ Exit(1)
    /\ UNCHANGED <<adoClient, connections, testSuites, pending,
                   request, response, calls, saved, fetched,
                   completion, recommended, overlapped>>

\* SIGTERM or SIGINT.
Signal ==
    /\ Alive
    /\ pc # "start"
    /\ Exit(0)
    /\ UNCHANGED <<adoClient, adapter, connections, testSuites, pending,
                   request, response, calls, saved, fetched,
                   completion, recommended, overlapped>>

\* A request can be handled once the module body has run: through the
\* listener after app.listen, or by a caller of the exported app at any time.
NoRequest == [kind |-> "none"]
NoResponse == [handler |-> "none", status |-> 0, body |-> [none |-> TRUE]]

\* Handlers run to completion one at a time: the next one starts when the
\* request and response objects of the last one are released.
Idle == Alive /\ request = NoRequest

CanHandle(req) ==
    /\ Idle
    /\ pc \in {"initializing", "listening"}
    /\ req.via = "listener" => pc = "listening"


(***************************************************************************)
(* The /api handlers.  Each is the function of the request and of what the *)
(* awaited adapter call does; none touches the registries.                 *)
(***************************************************************************)
getAllTestPlans(req, out) ==
    LET filterActivePlans == req.query.filterActivePlans # Some("false")
        includePlanDetails == req.query.includePlanDetails = Some("true")
        cs == <<Call("getAllTestPlans", <<filterActivePlans, includePlanDetails>>)>>
    IN  IF ~out.ok THEN Done(errorHandler(out.error, req), cs)
        ELSE Done(Json("getAllTestPlans", 200,
                       [success |-> TRUE, data |-> "testPlans",
                        count |-> IF out.empty THEN 0 ELSE 1,
                        filters |-> <<filterActivePlans, includePlanDetails>>]), cs)

getTestPlan(req, out) ==
    LET testPlanId == parseInt(req.path[3])
        cs == <<Call("getTestPlan", <<testPlanId.val>>)>>
    IN  IF isNaN(testPlanId)
        THEN Done(Json("getTestPlan", 400,
                       [error |-> "Invalid test plan ID",
                        message |-> <<"Test plan ID must be a number">>]), <<>>)
        ELSE IF ~out.ok THEN Done(errorHandler(out.error, req), cs)
        ELSE IF out.empty
        THEN Done(Json("getTestPlan", 404,
                       [error |-> "Test plan not found",
                        message |-> <<"Test plan with ID ", NumberToString(testPlanId.val),
                                      " not found">>]), cs)
        ELSE Done(Json("getTestPlan", 200, [success |-> TRUE, data |-> "testPlan"]), cs)

createTestPlan(req, out) ==
    LET cs == <<Call("createTestPlan", <<req.body.name, req.body.iteration>>)>>
    IN  IF Falsy(req.body.name) \/ Falsy(req.body.iteration)
        THEN Done(Json("createTestPlan", 400,
                       [error |-> "Missing required fields",
                        message |-> <<"name and iteration are required">>]), <<>>)
        ELSE IF ~out.ok THEN Done(errorHandler(out.error, req), cs)
        ELSE Done(Json("createTestPlan", 201,
                       [success |-> TRUE, data |-> "testPlan",
                        message |-> <<"Test plan created successfully">>]), cs)

updateTestPlan(req, out) ==
    LET testPlanId == parseInt(req.path[3])
        cs == <<Call("updateTestPlan", <<testPlanId.val, req.body.iteration>>)>>
    IN  IF isNaN(testPlanId)
        THEN Done(Json("updateTestPlan", 400,
                       [error |-> "Invalid test plan ID",
                        message |-> <<"Test plan ID must be a number">>]), <<>>)
        ELSE IF Falsy(req.body.iteration)
        THEN Done(Json("updateTestPlan", 400,
                       [error |-> "Missing required field",
                        message |-> <<"iteration is required for updates">>]), <<>>)
        ELSE IF ~out.ok THEN Done(errorHandler(out.error, req), cs)
        ELSE Done(Json("updateTestPlan", 200,
                       [success |-> TRUE, data |-> "updatedTestPlan",
                        message |-> <<"Test plan updated successfully">>]), cs)

deleteTestPlan(req, out) ==
    LET testPlanId == parseInt(req.path[3])
        cs == <<Call("deleteTestPlan", <<testPlanId.val>>)>>
    IN  IF isNaN(testPlanId)
        THEN Done(Json("deleteTestPlan", 400,
                       [error |-> "Invalid test plan ID",
                        message |-> <<"Test plan ID must be a number">>]), <<>>)
        ELSE IF ~out.ok THEN Done(errorHandler(out.error, req), cs)
        ELSE Done(Json("deleteTestPlan", 200,
                       [success |-> TRUE,
                        message |-> <<"Test plan deleted successfully">>]), cs)

createTestCase(req, out) ==
    LET cs == <<Call("createTestCase", <<req.body.title>>)>>
    IN  IF Falsy(req.body.title)
        THEN Done(Json("createTestCase", 400,
                       [error |-> "Missing required field",
                        message |-> <<"title is required">>]), <<>>)
        ELSE IF ~out.ok THEN Done(errorHandler(out.error, req), cs)
        ELSE Done(Json("createTestCase", 201,
                       [success |-> TRUE, data |-> "testCase",
                        message |-> <<"Test case created successfully">>]), cs)

getTestCase(req, out) ==
    LET id == parseInt(req.path[3])
        cs == <<Call("getTestCaseDetails", <<id.val>>)>>
    IN  IF isNaN(id)
        THEN Done(Json("getTestCase", 400, [error |-> "Invalid test case ID"]), <<>>)
        ELSE IF ~out.ok THEN Done(errorHandler(out.error, req), cs)
        ELSE Done(Json("getTestCase", 200, [details |-> <<id.val>>]), cs)

\* The most ids one batch request may carry.
MaxBatchIds == 100

\* ids.filter(id => Number.isInteger(id) && id > 0)
ValidIds(elems) ==
    SelectSeq(elems, LAMBDA id : NumberIsInteger(id) /\ GreaterThanZero(id))

\* batchTestCases with the element check in front of the count check.
batchTestCasesElementsFirst(req, out) ==
    LET ids == req.body.ids
        validIds == ValidIds(ids.elems)
        cs == <<Call("getMultipleTestCaseDetails", validIds)>>
    IN  IF ~ArrayIsArray(ids) \/ Len(ids.elems) = 0
        THEN Done(Json("batchTestCases", 400,
                       [error |-> "ids array is required and cannot be empty"]), <<>>)
        ELSE IF Len(validIds) # Len(ids.elems)
        THEN Done(Json("batchTestCases", 400,
                       [error |-> "All IDs must be positive integers"]), <<>>)
        ELSE IF Len(ids.elems) > MaxBatchIds
        THEN Done(Json("batchTestCases", 400,
                       [error |-> "Maximum 100 test case IDs allowed per request"]), <<>>)
        ELSE IF ~out.ok THEN Done(errorHandler(out.error, req), cs)
        ELSE Done(Json("batchTestCases", 200, [details |-> validIds]), cs)

\* batchTestCases fetching the ids one by one instead of in one batch call.
batchTestCasesOneByOne(req, out) ==
    LET ids == req.body.ids
        validIds == ValidIds(ids.elems)
        cs == [i \in DOMAIN validIds |-> Call("getTestCaseDetails", <<validIds[i]>>)]
    IN  IF ~ArrayIsArray(ids) \/ Len(ids.elems) = 0
        THEN Done(Json("batchTestCases", 400,
                       [error |-> "ids array is required and cannot be empty"]), <<>>)
        ELSE IF Len(ids.elems) > MaxBatchIds
        THEN Done(Json("batchTestCases", 400,
                       [error |-> "Maximum 100 test case IDs allowed per request"]), <<>>)
        ELSE IF Len(validIds) # Len(ids.elems)
        THEN Done(Json("batchTestCases", 400,
                       [error |-> "All IDs must be positive integers"]), <<>>)
        ELSE IF ~out.ok THEN Done(errorHandler(out.error, req), cs)
        ELSE Done(Json("batchTestCases", 200, [details |-> validIds]), cs)

batchTestCases(req, out) ==
    LET ids == req.body.ids
        validIds == ValidIds(ids.elems)
        cs == <<Call("getMultipleTestCaseDetails", validIds)>>
    IN  IF ~ArrayIsArray(ids) \/ Len(ids.elems) = 0
        THEN Done(Json("batchTestCases", 400,
                       [error |-> "ids array is required and cannot be empty"]), <<>>)
        ELSE IF Len(ids.elems) > MaxBatchIds
        THEN Done(Json("batchTestCases", 400,
                       [error |-> "Maximum 100 test case IDs allowed per request"]), <<>>)
        ELSE IF Len(validIds) # Len(ids.elems)
        THEN Done(Json("batchTestCases", 400,
                       [error |-> "All IDs must be positive integers"]), <<>>)
        ELSE IF ~out.ok THEN Done(errorHandler(out.error, req), cs)
        ELSE Done(Json("batchTestCases", 200, [details |-> validIds]), cs)

addTestCasesToSuite(req, out) ==
    LET planId == parseInt(req.path[3])
        suiteId == parseInt(req.path[5])
        testCaseIds == req.body.testCaseIds
        cs == <<Call("addTestCasesToSuite", <<planId.val, suiteId.val, testCaseIds>>)>>
    IN  IF isNaN(planId) \/ isNaN(suiteId)
        THEN Done(Json("addTestCasesToSuite", 400,
                       [error |-> "Invalid IDs",
                        message |-> <<"Plan ID and Suite ID must be numbers">>]), <<>>)
        ELSE IF Falsy(testCaseIds)
        THEN Done(Json("addTestCasesToSuite", 400,
                       [error |-> "Missing required field",
                        message |-> <<"testCaseIds is required">>]), <<>>)
        ELSE IF ~out.ok THEN Done(errorHandler(out.error, req), cs)
        ELSE Done(Json("addTestCasesToSuite", 200,
                       [success |-> TRUE, data |-> "result",
                        message |-> <<"Test cases added to suite successfully">>]), cs)

getSuiteTestCases(req, out) ==
    LET planId == parseInt(req.path[3])
        suiteId == parseInt(req.path[5])
        cs == <<Call("getTestCaseList", <<planId.val, suiteId.val>>)>>
    IN  IF isNaN(planId) \/ isNaN(suiteId)
        THEN Done(Json("getSuiteTestCases", 400,
                       [error |-> "Invalid IDs",
                        message |-> <<"Plan ID and Suite ID must be numbers">>]), <<>>)
        ELSE IF ~out.ok THEN Done(errorHandler(out.error, req), cs)
        ELSE Done(Json("getSuiteTestCases", 200,
                       [success |-> TRUE, data |-> "testCases",
                        count |-> IF out.empty THEN 0 ELSE 1,
                        planId |-> planId.val, suiteId |-> suiteId.val]), cs)

getBuildTestResults(req, out) ==
    LET buildId == parseInt(req.path[3])
        cs == <<Call("getTestResultsFromBuildId", <<buildId.val>>)>>
    IN  IF isNaN(buildId)
        THEN Done(Json("getBuildTestResults", 400,
                       [error |-> "Invalid build ID",
                        message |-> <<"Build ID must be a number">>]), <<>>)
        ELSE IF ~out.ok THEN Done(errorHandler(out.error, req), cs)
        ELSE Done(Json("getBuildTestResults", 200,
                       [success |-> TRUE, data |-> "testResults",
                        buildId |-> buildId.val]), cs)

health(req) ==
    Done(Json("health", 200,
              [status |-> "healthy", timestamp |-> "now",
               clientInitialized |-> adoClient # "null"]), <<>>)

root(req) ==
    Done(Json("root", 200,
              [message |-> <<"Azure DevOps Test Plans API Server">>,
               version |-> "1.0.0",
               documentation |-> "See README.md for detailed API documentation"]), <<>>)

notFound(req) ==
    Done(Json("notFound", 404,
              [error |-> "Not Found",
               message |-> <<"Route ">> \o OriginalUrl(req) \o <<" not found">>,
               availableEndpoints |-> "/"]), <<>>)

\* A route registered with ensureClientInitialized in front of its handler.
Gated(done) ==
    IF ensureClientInitialized THEN done ELSE Done(GateResponse, <<>>)

\* The request is answered and nothing else changes.
Answer(req, done) ==
    /\ request' = req
    /\ response' = done.resp
    /\ calls' = done.calls
    /\ UNCHANGED <<adoClient, adapter, pc, exitCode, connections, testSuites,
                   pending, saved, fetched,
                   completion, recommended, overlapped>>

\* The request is answered after the handler awaited the adapter call that
\* settled with out, if it came to call the adapter at all.
AnswerAwaited(req, done, out) ==
    /\ request' = req
    /\ response' = done.resp
    /\ calls' = done.calls
    /\ fetched' = IF done.calls = <<>> THEN None ELSE Some(out)
    /\ UNCHANGED <<adoClient, adapter, pc, exitCode, connections, testSuites,
                   pending, saved, completion, recommended, overlapped>>


(***************************************************************************)
(* The requests the model sends.                                           *)
(***************************************************************************)
Vias == {"listener", "app"}

RECURSIVE SeqsUpTo(_, _)
SeqsUpTo(S, n) ==
    IF n = 0 THEN {<<>>}
    ELSE LET shorter == SeqsUpTo(S, n - 1)
         IN  shorter \cup {Append(q, x) : q \in {t \in shorter : Len(t) = n - 1}, x \in S}

\* 1, 2, -2, 0, 1.5 and a string
IdElems == {JNum(2), JNum(4), JNum(-4), JNum(0), JNum(3), JStr}

\* n distinct positive integers 1..n
Fill(n) == [i \in 1..n |-> JNum(2 * i)]

IdsInputs ==
    {JOther("undefined"), JOther("string"), JOther("object")}
    \cup {JArray(q) : q \in SeqsUpTo(IdElems, MaxSmallIds)}
    \cup {JArray(Fill(n)) : n \in {100, 101}}
    \cup {JArray([Fill(n) EXCEPT ![k] = bad]) :
             n \in {100, 101}, k \in {1, 100}, bad \in {JNum(-4), JStr}}

QueryValues == {None, Some("true"), Some("false")}
TextValues == {None, Some(""), Some("x")}

ApiRequests(via) ==
    {Req(via, "GET", <<"health">>, NoQuery, EmptyBody),
     Req(via, "GET", <<>>, NoQuery, EmptyBody),
     Req(via, "GET", <<"api", "nothing">>, NoQuery, EmptyBody),
     Req(via, "DELETE", <<"api", "testcases", "12">>, NoQuery, EmptyBody)}
    \cup {Req(via, "GET", <<"api", "testplans">>,
              [filterActivePlans |-> f, includePlanDetails |-> d], EmptyBody) :
             f \in QueryValues, d \in QueryValues}
    \cup {Req(via, m, <<"api", "testplans", v>>, NoQuery, EmptyBody) :
             m \in {"GET", "DELETE"}, v \in IdStrings \cup {"recommendations"}}
    \cup {Req(via, "PUT", <<"api", "testplans", v>>, NoQuery,
              [EmptyBody EXCEPT !.iteration = i]) :
             v \in IdStrings, i \in TextValues}
    \cup {Req(via, "POST", <<"api", "testplans">>, NoQuery,
              [EmptyBody EXCEPT !.name = n, !.iteration = i]) :
             n \in TextValues, i \in TextValues}
    \cup {Req(via, "POST", <<"api", "testplans", "recommendations">>, NoQuery,
              [EmptyBody EXCEPT !.prd = prd, !.testPlanId = t]) :
             prd \in {None, Some("p1")}, t \in {None, Some("12")}}
    \cup {Req(via, "POST", <<"api", "testcases">>, NoQuery,
              [EmptyBody EXCEPT !.title = t]) : t \in TextValues}
    \cup {Req(via, "GET", <<"api", "testcases", v>>, NoQuery, EmptyBody) :
             v \in IdStrings}
    \cup {Req(via, "POST", <<"api", "testcases", "batch">>, NoQuery,
              [EmptyBody EXCEPT !.ids = ids]) : ids \in IdsInputs}
    \cup {Req(via, "POST", <<"api", "testplans", v, "suites", w, "testcases">>, NoQuery,
              [EmptyBody EXCEPT !.testCaseIds = t]) :
             v \in IdStrings, w \in IdStrings, t \in {None, Some("5")}}
    \cup {Req(via, "GET", <<"api", "testplans", v, "suites", w, "testcases">>, NoQuery,
              EmptyBody) : v \in IdStrings, w \in IdStrings}
    \cup {Req(via, "GET", <<"api", "builds", v, "testresults">>, NoQuery, EmptyBody) :
             v \in IdStrings}

(***************************************************************************)
(* A request that enters the Express stack is answered by the first layer  *)
(* that matches it.                                                        *)
(***************************************************************************)
ValidConnectionBodies ==
    {[EmptyBody EXCEPT !.github_url = Some("g1"), !.prd = Some("p1"),
                       !.ado_url = Some("a1"), !.website_url = Some("w1")],
     [EmptyBody EXCEPT !.github_url = Some("g2"), !.prd = Some("p2"),
                       !.ado_url = Some("a2"), !.website_url = Some("w2")]}

ConnectionBodies ==
    ValidConnectionBodies
    \cup {[EmptyBody EXCEPT !.prd = Some("p1"), !.ado_url = Some("a1"),
                            !.website_url = Some("w1")],
          [EmptyBody EXCEPT !.github_url = Some("g1"), !.ado_url = Some("a1"),
                            !.website_url = Some("w1")],
          [EmptyBody EXCEPT !.github_url = Some("g1"), !.prd = Some("p1"),
                            !.website_url = Some("w1")],
          [EmptyBody EXCEPT !.github_url = Some("g1"), !.prd = Some("p1"),
                            !.ado_url = Some("a1")],
          [EmptyBody EXCEPT !.github_url = Some("g1"), !.prd = Some(""),
                            !.ado_url = Some("a1"), !.website_url = Some("w1")]}

IssueBodies ==
    {[EmptyBody EXCEPT !.title = t, !.body = b] :
        t \in {None, Some("T")}, b \in {None, Some(""), Some("B")}}

TestCaseIds == {"1", "x"}

\* The first resource receives every request; the second one a few, enough
\* to hold a connection and a suite list of its own.
RegistryRequests(via) ==
    {Req(via, "POST", <<"r1", "saveConnection">>, NoQuery, b) : b \in ConnectionBodies}
    \cup {Req(via, "GET", <<r>>, NoQuery, EmptyBody) : r \in ResourceIds}
    \cup {Req(via, "GET", <<"r1", "ado_plans">>, NoQuery, EmptyBody)}
    \cup {Req(via, "POST", <<"r1", "createIssue", t>>, NoQuery, b) :
             t \in TestCaseIds, b \in IssueBodies}
    \cup {Req(via, "POST", <<"r2", "saveConnection">>, NoQuery, b) :
             b \in {[EmptyBody EXCEPT !.github_url = Some("g2"), !.prd = Some("p2"),
                                      !.ado_url = Some("a2"), !.website_url = Some("w2")]}}
    \cup {Req(via, "POST", <<"r2", "createIssue", "x">>, NoQuery,
              [EmptyBody EXCEPT !.title = Some("T"), !.body = Some("B")])}

\* Every request of the model enters the Express stack, through the listener
\* or through the exported app.
Requests == UNION {ApiRequests(via) \cup RegistryRequests(via) : via \in Vias}

\* The requests that can be handled now: none while a handler runs.
Arriving == IF Idle THEN Requests ELSE {}

Routed(req, h) ==
    /\ CanHandle(req)
    /\ Route(req.method, req.path) = h

Health ==
    \E req \in Arriving :
        Routed(req, "health") /\ Answer(req, health(req))

Root ==
    \E req \in Arriving :
        Routed(req, "root") /\ Answer(req, root(req))

GetAllTestPlans ==
    \E req \in Arriving :
        /\ Routed(req, "getAllTestPlans")
        /\ \E out \in Outcomes : AnswerAwaited(req, Gated(getAllTestPlans(req, out)), out)

GetTestPlan ==
    \E req \in Arriving :
        /\ Routed(req, "getTestPlan")
        /\ \E out \in Outcomes : AnswerAwaited(req, Gated(getTestPlan(req, out)), out)

CreateTestPlan ==
    \E req \in Arriving :
        /\ Routed(req, "createTestPlan")
        /\ \E out \in Outcomes : AnswerAwaited(req, Gated(createTestPlan(req, out)), out)

UpdateTestPlan ==
    \E req \in Arriving :
        /\ Routed(req, "updateTestPlan")
        /\ \E out \in Outcomes : AnswerAwaited(req, Gated(updateTestPlan(req, out)), out)

DeleteTestPlan ==
    \E req \in Arriving :
        /\ Routed(req, "deleteTestPlan")
        /\ \E out \in Outcomes : AnswerAwaited(req, Gated(deleteTestPlan(req, out)), out)

CreateTestCase ==
    \E req \in Arriving :
        /\ Routed(req, "createTestCase")
        /\ \E out \in Outcomes : AnswerAwaited(req, Gated(createTestCase(req, out)), out)

GetTestCase ==
    \E req \in Arriving :
        /\ Routed(req, "getTestCase")
        /\ \E out \in Outcomes : AnswerAwaited(req, Gated(getTestCase(req, out)), out)

BatchTestCases ==
    \E req \in Arriving :
        /\ Routed(req, "batchTestCases")
        /\ \E out \in Outcomes : AnswerAwaited(req, Gated(batchTestCases(req, out)), out)

AddTestCasesToSuite ==
    \E req \in Arriving :
        /\ Routed(req, "addTestCasesToSuite")
        /\ \E out \in Outcomes : AnswerAwaited(req, Gated(addTestCasesToSuite(req, out)), out)

GetSuiteTestCases ==
    \E req \in Arriving :
        /\ Routed(req, "getSuiteTestCases")
        /\ \E out \in Outcomes : AnswerAwaited(req, Gated(getSuiteTestCases(req, out)), out)

GetBuildTestResults ==
    \E req \in Arriving :
        /\ Routed(req, "getBuildTestResults")
        /\ \E out \in Outcomes : AnswerAwaited(req, Gated(getBuildTestResults(req, out)), out)

NotFound ==
    \E req \in Arriving :
        Routed(req, "notFound") /\ Answer(req, notFound(req))

\* The response is on its way; the request and response objects are dropped.
Finish ==
    /\ Alive
    /\ request # NoRequest
    /\ request' = NoRequest
    /\ response' = NoResponse
    /\ calls' = <<>>
    /\ fetched' = None
    /\ overlapped' = overlapped \cap pending
    /\ UNCHANGED <<adoClient, adapter, pc, exitCode, connections, testSuites,
                   pending, saved,
                   completion, recommended>>


(***************************************************************************)
(* The registry handlers.  Each operator is the handler as a function of   *)
(* the state it reads: it gives the response and the new registry.         *)
(* A text built from a template is the sequence of its parts.              *)
(***************************************************************************)
ConnectionIds == {"c1", "c2"}   \* what Math.random().toString(36).substr(2, 10) can give
IssueIds == {"i1", "i2"}        \* what Math.random().toString(36).substr(2, 8) can give

\* saveConnection merging into the entry it finds: an earlier prd is kept.
saveConnectionMerging(req, connectionId) ==
    LET resourceId == req.path[1]
        b == req.body
        old == connections[resourceId]
        connection == [resourceId |-> resourceId, connectionId |-> connectionId,
                       github_url |-> Get(b.github_url),
                       prd |-> IF IsSome(old) THEN Get(old).prd ELSE Get(b.prd),
                       ado_url |-> Get(b.ado_url), website_url |-> Get(b.website_url)]
    IN  IF Falsy(b.github_url) \/ Falsy(b.prd) \/ Falsy(b.ado_url) \/ Falsy(b.website_url)
        THEN [resp |-> Json("saveConnection", 400,
                            [error |-> "Missing required fields",
                             message |-> <<"github_url, prd, ado_url, and website_url are required">>]),
              connections |-> connections]
        ELSE [resp |-> Json("saveConnection", 200,
                            [message |-> <<"Connection saved successfully">>,
                             status |-> "success",
                             resourceId |-> resourceId,
                             connectionId |-> connectionId]),
              connections |-> [connections EXCEPT ![resourceId] = Some(connection)]]

\* saveConnection storing the connection under every resourceId.
saveConnectionEveryKey(req, connectionId) ==
    LET resourceId == req.path[1]
        b == req.body
        connection == [resourceId |-> resourceId, connectionId |-> connectionId,
                       github_url |-> Get(b.github_url), prd |-> Get(b.prd),
                       ado_url |-> Get(b.ado_url), website_url |-> Get(b.website_url)]
    IN  IF Falsy(b.github_url) \/ Falsy(b.prd) \/ Falsy(b.ado_url) \/ Falsy(b.website_url)
        THEN [resp |-> Json("saveConnection", 400,
                            [error |-> "Missing required fields",
                             message |-> <<"github_url, prd, ado_url, and website_url are required">>]),
              connections |-> connections]
        ELSE [resp |-> Json("saveConnection", 200,
                            [message |-> <<"Connection saved successfully">>,
                             status |-> "success",
                             resourceId |-> resourceId,
                             connectionId |-> connectionId]),
              connections |-> [r \in ResourceIds |-> Some(connection)]]

\* saveConnection dropping the entry it finds when the new body is rejected.
saveConnectionClearing(req, connectionId) ==
    LET resourceId == req.path[1]
        b == req.body
        connection == [resourceId |-> resourceId, connectionId |-> connectionId,
                       github_url |-> Get(b.github_url), prd |-> Get(b.prd),
                       ado_url |-> Get(b.ado_url), website_url |-> Get(b.website_url)]
    IN  IF Falsy(b.github_url) \/ Falsy(b.prd) \/ Falsy(b.ado_url) \/ Falsy(b.website_url)
        THEN [resp |-> Json("saveConnection", 400,
                            [error |-> "Missing required fields",
                             message |-> <<"github_url, prd, ado_url, and website_url are required">>]),
              connections |-> [connections EXCEPT ![resourceId] = None]]
        ELSE [resp |-> Json("saveConnection", 200,
                            [message |-> <<"Connection saved successfully">>,
                             status |-> "success",
                             resourceId |-> resourceId,
                             connectionId |-> connectionId]),
              connections |-> [connections EXCEPT ![resourceId] = Some(connection)]]

saveConnection(req, connectionId) ==
    LET resourceId == req.path[1]
        b == req.body
        connection == [resourceId |-> resourceId, connectionId |-> connectionId,
                       github_url |-> Get(b.github_url), prd |-> Get(b.prd),
                       ado_url |-> Get(b.ado_url), website_url |-> Get(b.website_url)]
    IN  IF Falsy(b.github_url) \/ Falsy(b.prd) \/ Falsy(b.ado_url) \/ Falsy(b.website_url)
        THEN [resp |-> Json("saveConnection", 400,
                            [error |-> "Missing required fields",
                             message |-> <<"github_url, prd, ado_url, and website_url are required">>]),
              connections |-> connections]
        ELSE [resp |-> Json("saveConnection", 200,
                            [message |-> <<"Connection saved successfully">>,
                             status |-> "success",
                             resourceId |-> resourceId,
                             connectionId |-> connectionId]),
              connections |-> [connections EXCEPT ![resourceId] = Some(connection)]]

getConnection(req) ==
    LET resourceId == req.path[1]
        connection == connections[resourceId]
    IN  IF connection = None
        THEN Json("getConnection", 404,
                  [error |-> "Connection not found",
                   message |-> <<"No connection found for resourceId: ", resourceId>>])
        ELSE Json("getConnection", 200,
                  [github_url |-> Get(connection).github_url,
                   prd |-> Get(connection).prd,
                   ado_url |-> Get(connection).ado_url,
                   website_url |-> Get(connection).website_url,
                   resourceId |-> Get(connection).resourceId,
                   connectionId |-> Get(connection).connectionId])

ConnectionMissing(h, resourceId) ==
    Json(h, 404,
         [error |-> "Connection not found",
          message |-> <<"No connection found for resourceId: ", resourceId,
                        ". Please save connection first.">>])

\* plan.name inside a template string
TemplateName(plan) == IF IsSome(plan.name) THEN Get(plan.name) ELSE "undefined"

\* The suite the ado_plans loop builds for one plan.
PlanSuite(plan) ==
    [name |-> IF ~Falsy(plan.name) THEN <<Get(plan.name)>>
              ELSE <<"Test Plan ", NumberToString(Get(plan.id))>>,
     testCaseId |-> NumberToString(Get(plan.id)),
     testCases |-> << [name |-> <<"Sample test case for ", TemplateName(plan)>>,
                       steps |-> <<"Step 1: Navigate to application",
                                   "Step 2: Perform test action",
                                   "Step 3: Verify expected result">>,
                       issueId |-> None,
                       status |-> None] >>]

\* if (plan.id): undefined and 0 are skipped.
PlanHasId(plan) == IsSome(plan.id) /\ Get(plan.id) # 0

RECURSIVE SuitesOfPlans(_)
SuitesOfPlans(testPlans) ==
    IF testPlans = <<>> THEN <<>>
    ELSE (IF PlanHasId(Head(testPlans)) THEN <<PlanSuite(Head(testPlans))>> ELSE <<>>)
         \o SuitesOfPlans(Tail(testPlans))

\* adoPlansResolved keeping the list it finds stored: the first write wins.
adoPlansResolvedKeeping(req, testPlans) ==
    LET resourceId == req.path[1]
        suites == IF IsSome(testSuites[resourceId]) THEN Get(testSuites[resourceId])
                  ELSE SuitesOfPlans(testPlans)
    IN  [resp |-> Json("adoPlans", 200, [suites |-> suites]),
         testSuites |-> [testSuites EXCEPT ![resourceId] = Some(suites)]]

\* adoPlansResolved adding the new suites to the list it finds stored.
adoPlansResolvedMerging(req, testPlans) ==
    LET resourceId == req.path[1]
        stored == IF IsSome(testSuites[resourceId]) THEN Get(testSuites[resourceId]) ELSE <<>>
        suites == stored \o SuitesOfPlans(testPlans)
    IN  [resp |-> Json("adoPlans", 200, [suites |-> suites]),
         testSuites |-> [testSuites EXCEPT ![resourceId] = Some(suites)]]

\* ado_plans after the vendor fetch resolved with testPlans.
adoPlansResolved(req, testPlans) ==
    LET resourceId == req.path[1]
        suites == SuitesOfPlans(testPlans)
    IN  [resp |-> Json("adoPlans", 200, [suites |-> suites]),
         testSuites |-> [testSuites EXCEPT ![resourceId] = Some(suites)]]

\* ado_plans after the vendor fetch rejected: the handler's own catch block.
adoPlansRejected(req, error) ==
    [resp |-> Json("adoPlans", 500,
                   [error |-> "Failed to fetch ADO plans", details |-> error.message]),
     testSuites |-> testSuites]

MarkTestCase(testCase, issueId) ==
    [testCase EXCEPT !.issueId = Some(issueId), !.status = Some("Creating")]

\* MarkSuite without the testCaseId comparison: every suite is marked.
MarkSuiteAny(suite, testCaseId, issueId) ==
    [suite EXCEPT !.testCases =
        [i \in DOMAIN suite.testCases |-> MarkTestCase(suite.testCases[i], issueId)]]

MarkSuite(suite, testCaseId, issueId) ==
    IF suite.testCaseId = testCaseId
    THEN [suite EXCEPT !.testCases =
             [i \in DOMAIN suite.testCases |-> MarkTestCase(suite.testCases[i], issueId)]]
    ELSE suite

\* Push with unshift in the place of push: the new suite comes first.
PushFront(suites, newSuite) == <<newSuite>> \o suites

\* suites.push(newSuite)
Push(suites, newSuite) == Append(suites, newSuite)

\* createIssue appending its suite whether or not a stored suite matched.
createIssueAlwaysPushing(req, issueId) ==
    LET resourceId == req.path[1]
        testCaseId == req.path[3]
        title == req.body.title
        body == req.body.body
        stored == IF IsSome(testSuites[resourceId]) THEN Get(testSuites[resourceId]) ELSE <<>>
        mapped == [i \in DOMAIN stored |-> MarkSuite(stored[i], testCaseId, issueId)]
        newSuite == [name |-> <<"GitHub Issue Suite">>,
                     testCaseId |-> testCaseId,
                     testCases |-> << [name |-> <<Get(title)>>,
                                       steps |-> <<Get(body)>>,
                                       issueId |-> Some(issueId),
                                       status |-> Some("Creating")] >>]
        suites == Push(mapped, newSuite)
    IN  IF connections[resourceId] = None
        THEN [resp |-> ConnectionMissing("createIssue", resourceId),
              testSuites |-> testSuites]
        ELSE IF Falsy(title) \/ Falsy(body)
        THEN [resp |-> Json("createIssue", 400,
                            [error |-> "Missing required fields",
                             message |-> <<"title and body are required">>]),
              testSuites |-> testSuites]
        ELSE [resp |-> Json("createIssue", 200, [suites |-> suites]),
              testSuites |-> [testSuites EXCEPT ![resourceId] = Some(suites)]]

\* createIssue without the connection lookup.
createIssueWithoutConnection(req, issueId) ==
    LET resourceId == req.path[1]
        testCaseId == req.path[3]
        title == req.body.title
        body == req.body.body
        stored == IF IsSome(testSuites[resourceId]) THEN Get(testSuites[resourceId]) ELSE <<>>
        mapped == [i \in DOMAIN stored |-> MarkSuite(stored[i], testCaseId, issueId)]
        issueCreated == \E i \in DOMAIN stored : stored[i].testCaseId = testCaseId
        newSuite == [name |-> <<"GitHub Issue Suite">>,
                     testCaseId |-> testCaseId,
                     testCases |-> << [name |-> <<Get(title)>>,
                                       steps |-> <<Get(body)>>,
                                       issueId |-> Some(issueId),
                                       status |-> Some("Creating")] >>]
        suites == IF issueCreated THEN mapped ELSE Push(mapped, newSuite)
    IN  IF Falsy(title) \/ Falsy(body)
        THEN [resp |-> Json("createIssue", 400,
                            [error |-> "Missing required fields",
                             message |-> <<"title and body are required">>]),
              testSuites |-> testSuites]
        ELSE [resp |-> Json("createIssue", 200, [suites |-> suites]),
              testSuites |-> [testSuites EXCEPT ![resourceId] = Some(suites)]]

\* createIssue validating title and body before it looks the connection up.
createIssueValidatingFirst(req, issueId) ==
    LET resourceId == req.path[1]
        testCaseId == req.path[3]
        title == req.body.title
        body == req.body.body
        stored == IF IsSome(testSuites[resourceId]) THEN Get(testSuites[resourceId]) ELSE <<>>
        mapped == [i \in DOMAIN stored |-> MarkSuite(stored[i], testCaseId, issueId)]
        issueCreated == \E i \in DOMAIN stored : stored[i].testCaseId = testCaseId
        newSuite == [name |-> <<"GitHub Issue Suite">>,
                     testCaseId |-> testCaseId,
                     testCases |-> << [name |-> <<Get(title)>>,
                                       steps |-> <<Get(body)>>,
                                       issueId |-> Some(issueId),
                                       status |-> Some("Creating")] >>]
        suites == IF issueCreated THEN mapped ELSE Push(mapped, newSuite)
    IN  IF Falsy(title) \/ Falsy(body)
        THEN [resp |-> Json("createIssue", 400,
                            [error |-> "Missing required fields",
                             message |-> <<"title and body are required">>]),
              testSuites |-> testSuites]
        ELSE IF connections[resourceId] = None
        THEN [resp |-> ConnectionMissing("createIssue", resourceId),
              testSuites |-> testSuites]
        ELSE [resp |-> Json("createIssue", 200, [suites |-> suites]),
              testSuites |-> [testSuites EXCEPT ![resourceId] = Some(suites)]]

createIssue(req, issueId) ==
    LET resourceId == req.path[1]
        testCaseId == req.path[3]
        title == req.body.title
        body == req.body.body
        stored == IF IsSome(testSuites[resourceId]) THEN Get(testSuites[resourceId]) ELSE <<>>
        mapped == [i \in DOMAIN stored |-> MarkSuite(stored[i], testCaseId, issueId)]
        issueCreated == \E i \in DOMAIN stored : stored[i].testCaseId = testCaseId
        newSuite == [name |-> <<"GitHub Issue Suite">>,
                     testCaseId |-> testCaseId,
                     testCases |-> << [name |-> <<Get(title)>>,
                                       steps |-> <<Get(body)>>,
                                       issueId |-> Some(issueId),
                                       status |-> Some("Creating")] >>]
        suites == IF issueCreated THEN mapped ELSE Push(mapped, newSuite)
    IN  IF connections[resourceId] = None
        THEN [resp |-> ConnectionMissing("createIssue", resourceId),
              testSuites |-> testSuites]
        ELSE IF Falsy(title) \/ Falsy(body)
        THEN [resp |-> Json("createIssue", 400,
                            [error |-> "Missing required fields",
                             message |-> <<"title and body are required">>]),
              testSuites |-> testSuites]
        ELSE [resp |-> Json("createIssue", 200, [suites |-> suites]),
              testSuites |-> [testSuites EXCEPT ![resourceId] = Some(suites)]]

(***************************************************************************)
(* The registry handlers as operations: each is invoked on the requests    *)
(* that match the pattern it is registered under.                          *)
(***************************************************************************)
\* What getAllTestPlans(true, true) can resolve with.
PlanKinds ==
    {[id |-> Some(n), name |-> Some("Plan A")] : n \in {0, 1, 2}}
    \cup {[id |-> Some(1), name |-> None], [id |-> None, name |-> Some("Plan A")]}

PlanLists == SeqsUpTo(PlanKinds, MaxPlans)

\* What the awaited getAllTestPlans(true, true) settled with.
FetchResolved(testPlans) == [ok |-> TRUE, plans |-> testPlans, error |-> NoError]
FetchRejected(error) == [ok |-> FALSE, plans |-> <<>>, error |-> error]

\* The requests a registry handler h can be invoked on now.
Invoked(h) ==
    IF Idle
    THEN {req \in RegistryRequests("listener") :
             /\ CanHandle(req)
             /\ LayerMatches(LayerOf(h), req.method, req.path)}
    ELSE {}

SaveConnection ==
    \E req \in Invoked("saveConnection"), connectionId \in ConnectionIds :
        LET did == saveConnection(req, connectionId)
            resourceId == req.path[1]
        IN  /\ request' = req
            /\ response' = did.resp
            /\ calls' = <<>>
            /\ connections' = did.connections
            /\ saved' = IF did.resp.status = 200
                        THEN [saved EXCEPT ![resourceId] =
                                 Some([github_url |-> Get(req.body.github_url),
                                       prd |-> Get(req.body.prd),
                                       ado_url |-> Get(req.body.ado_url),
                                       website_url |-> Get(req.body.website_url),
                                       resourceId |-> resourceId,
                                       connectionId |-> did.resp.body.connectionId])]
                        ELSE saved
            /\ UNCHANGED <<adoClient, adapter, pc, exitCode, testSuites, pending, fetched,
                   completion, recommended, overlapped>>

GetConnection ==
    \E req \in Invoked("getConnection") :
        Answer(req, Done(getConnection(req), <<>>))

\* ado_plans up to its suspension on the vendor fetch (or to its early answer).
AdoPlans ==
    \E req \in Invoked("adoPlans") :
        LET resourceId == req.path[1]
        IN  IF ~ensureClientInitialized
            THEN Answer(req, Done(GateResponse, <<>>))
            ELSE IF connections[resourceId] = None
            THEN Answer(req, Done(ConnectionMissing("adoPlans", resourceId), <<>>))
            ELSE /\ req \notin pending
                 /\ pending' = pending \cup {req}
                 /\ request' = req
                 /\ response' = Json("adoPlans", 0, [suspended |-> TRUE])
                 /\ calls' = <<Call("getAllTestPlans", <<TRUE, TRUE>>)>>
                 /\ UNCHANGED <<adoClient, adapter, pc, exitCode, connections,
                                testSuites, saved, fetched,
                   completion, recommended, overlapped>>

\* The vendor fetch settles and the suspended handler runs to its end.
AdoPlansResume ==
    /\ Idle
    /\ \E req \in pending :
        /\ \/ \E testPlans \in PlanLists :
                LET did == adoPlansResolved(req, testPlans)
                IN  /\ response' = did.resp
                    /\ testSuites' = did.testSuites
                    /\ fetched' = Some(FetchResolved(testPlans))
           \/ \E error \in ThrownErrors :
                LET did == adoPlansRejected(req, error)
                IN  /\ response' = did.resp
                    /\ testSuites' = did.testSuites
                    /\ fetched' = Some(FetchRejected(error))
        /\ pending' = pending \ {req}
        /\ request' = req
        /\ calls' = <<>>
        /\ UNCHANGED <<adoClient, adapter, pc, exitCode, connections, saved,
                   completion, recommended, overlapped>>

CreateIssue ==
    \E req \in Invoked("createIssue"), issueId \in IssueIds :
        LET did == createIssue(req, issueId)
            resourceId == req.path[1]
        IN  /\ IsSome(did.testSuites[resourceId]) =>
                   Len(Get(did.testSuites[resourceId])) <= MaxSuites
            /\ request' = req
            /\ response' = did.resp
            /\ calls' = <<>>
            /\ testSuites' = did.testSuites
            /\ overlapped' = IF did.resp.status = 200
                              THEN overlapped \cup {q \in pending : q.path[1] = resourceId}
                              ELSE overlapped
            /\ UNCHANGED <<adoClient, adapter, pc, exitCode, connections, pending, saved,
                           fetched,
                   completion, recommended>>

(***************************************************************************)
(* AzureOpenAIService (src/src/AzureOpenAIService.ts).  A text is the       *)
(* sequence of its units: a unit is a run of characters the service and    *)
(* JSON.parse treat as one (a code fence, a word, a quote, a bracket, a    *)
(* blank, a line break).                                                   *)
(***************************************************************************)
\* The unit of three backquotes that opens or closes a markdown code block.
Fence == "FENCE"
Quote == "\""

\* What \s matches among the units.
Whitespace == {" ", "\n"}

\* cs without the whitespace run in front of it.
RECURSIVE SkipWhitespace(_)
SkipWhitespace(cs) ==
    IF cs # <<>> /\ Head(cs) \in Whitespace THEN SkipWhitespace(Tail(cs)) ELSE cs

\* cs without the units at the positions in gone.
Remove(cs, gone) ==
    LET marked == [i \in DOMAIN cs |-> [unit |-> cs[i], gone |-> i \in gone]]
        kept == SelectSeq(marked, LAMBDA m : ~m.gone)
    IN  [i \in DOMAIN kept |-> kept[i].unit]

\* The positions of the whitespace run that starts at position i.
WhitespaceRun(cs, i) ==
    {k \in i..Len(cs) : \A j \in i..k : cs[j] \in Whitespace}

\* content.replace(/FENCEjson\s*\n?/g, ""): every match, wherever it is, goes:
\* the fence, the word json behind it and the whitespace behind that.
RemoveJsonFences(cs) ==
    LET starts == {i \in DOMAIN cs : cs[i] = Fence /\ i < Len(cs) /\ cs[i + 1] = "json"}
    IN  Remove(cs, UNION {{i, i + 1} \cup WhitespaceRun(cs, i + 2) : i \in starts})

\* .replace(/FENCE\s*\n?/g, ""): every match, wherever it is, goes: the fence
\* and the whitespace behind it.
RemoveFences(cs) ==
    LET starts == {i \in DOMAIN cs : cs[i] = Fence}
    IN  Remove(cs, UNION {{i} \cup WhitespaceRun(cs, i + 1) : i \in starts})

RECURSIVE TrimEnd(_)
TrimEnd(cs) ==
    IF cs # <<>> /\ cs[Len(cs)] \in Whitespace
    THEN TrimEnd(SubSeq(cs, 1, Len(cs) - 1))
    ELSE cs

\* String.prototype.trim
trim(cs) == TrimEnd(SkipWhitespace(cs))

cleanContent(content) == trim(RemoveFences(RemoveJsonFences(content)))

(***************************************************************************)
(* JSON values and JSON.parse.                                             *)
(***************************************************************************)
JString(text) == [type |-> "string", text |-> text]
JNumber(numeral) == [type |-> "number", numeral |-> numeral]
JBoolean(b) == [type |-> "boolean", bool |-> b]
JNull == [type |-> "null"]
JUndefined == [type |-> "undefined"]
JObject(members) == [type |-> "object", members |-> members]
Member(key, value) == [key |-> key, value |-> value]

\* The numerals of the model.
Numerals == {"0", "42"}

Parsed(val, rest) == [ok |-> TRUE, val |-> val, rest |-> rest]
SyntaxError(text) == [ok |-> FALSE, val |-> JUndefined, rest |-> <<>>, message |-> <<text>>]

\* The rest of a string literal, after its opening quote.
RECURSIVE ParseString(_, _)
ParseString(cs, text) ==
    IF cs = <<>> THEN SyntaxError("Unterminated string in JSON")
    ELSE IF Head(cs) = Quote THEN Parsed(JString(text), Tail(cs))
    ELSE IF Head(cs) = "\n" THEN SyntaxError("Bad control character in string literal in JSON")
    ELSE ParseString(Tail(cs), Append(text, Head(cs)))

RECURSIVE ParseValue(_)
RECURSIVE ParseElements(_, _)
RECURSIVE ParseMembers(_, _)

ParseValue(cs0) ==
    LET cs == SkipWhitespace(cs0)
    IN  IF cs = <<>> THEN SyntaxError("Unexpected end of JSON input")
        ELSE LET c == Head(cs)
                 rest == SkipWhitespace(Tail(cs))
             IN  CASE c = Quote -> ParseString(Tail(cs), <<>>)
                   [] c = "[" -> IF rest # <<>> /\ Head(rest) = "]"
                                 THEN Parsed(JArray(<<>>), Tail(rest))
                                 ELSE ParseElements(rest, <<>>)
                   [] c = "{" -> IF rest # <<>> /\ Head(rest) = "}"
                                 THEN Parsed(JObject(<<>>), Tail(rest))
                                 ELSE ParseMembers(rest, <<>>)
                   [] c = "null" -> Parsed(JNull, Tail(cs))
                   [] c = "true" -> Parsed(JBoolean(TRUE), Tail(cs))
                   [] c = "false" -> Parsed(JBoolean(FALSE), Tail(cs))
                   [] c \in Numerals -> Parsed(JNumber(c), Tail(cs))
                   [] OTHER -> SyntaxError("Unexpected token")

\* The elements of an array after "[" and the elements read so far.
ParseElements(cs, elems) ==
    LET v == ParseValue(cs)
        rest == SkipWhitespace(v.rest)
    IN  IF ~v.ok THEN v
        ELSE IF rest = <<>> THEN SyntaxError("Unexpected end of JSON input")
        ELSE IF Head(rest) = "," THEN ParseElements(Tail(rest), Append(elems, v.val))
        ELSE IF Head(rest) = "]" THEN Parsed(JArray(Append(elems, v.val)), Tail(rest))
        ELSE SyntaxError("Unexpected token")

\* The members of an object after "{" and the members read so far.
ParseMembers(cs0, members) ==
    LET cs == SkipWhitespace(cs0)
        k == ParseString(Tail(cs), <<>>)
        colon == SkipWhitespace(k.rest)
        v == ParseValue(Tail(colon))
        rest == SkipWhitespace(v.rest)
    IN  IF cs = <<>> THEN SyntaxError("Unexpected end of JSON input")
        ELSE IF Head(cs) # Quote THEN SyntaxError("Unexpected token")
        ELSE IF ~k.ok THEN k
        ELSE IF colon = <<>> THEN SyntaxError("Unexpected end of JSON input")
        ELSE IF Head(colon) # ":" THEN SyntaxError("Unexpected token")
        ELSE IF ~v.ok THEN v
        ELSE IF rest = <<>> THEN SyntaxError("Unexpected end of JSON input")
        ELSE IF Head(rest) = ","
        THEN ParseMembers(Tail(rest), Append(members, Member(k.val.text, v.val)))
        ELSE IF Head(rest) = "}"
        THEN Parsed(JObject(Append(members, Member(k.val.text, v.val))), Tail(rest))
        ELSE SyntaxError("Unexpected token")

\* JSON.parse(text): the value, or the SyntaxError thrown.
JSONparse(text) ==
    LET p == ParseValue(text)
    IN  IF ~p.ok THEN p
        ELSE IF SkipWhitespace(p.rest) # <<>> THEN SyntaxError("Unexpected non-whitespace character after JSON")
        ELSE p

(***************************************************************************)
(* parseRecommendations and generateTestPlanRecommendations.               *)
(***************************************************************************)
\* JavaScript truthiness of a JSON value.
Truthy(v) ==
    CASE v.type = "string" -> v.text # <<>>
      [] v.type = "number" -> v.numeral # "0"
      [] v.type = "boolean" -> v.bool
      [] v.type \in {"null", "undefined"} -> FALSE
      [] OTHER -> TRUE

\* v[key] of a value other than null: the last member of that key of an
\* object, undefined for everything else.
PropertyOf(v, key) ==
    IF v.type # "object" THEN JUndefined
    ELSE LET hits == {i \in DOMAIN v.members : v.members[i].key = <<key>>}
         IN  IF hits = {} THEN JUndefined
             ELSE v.members[CHOOSE i \in hits : \A j \in hits : j <= i].value

\* What a call gives: the value it returns or the error it throws.
Returned(value) == [ok |-> TRUE, value |-> value, message |-> <<>>]
Thrown(message) == [ok |-> FALSE, value |-> JUndefined, message |-> message]

\* The first error of a sequence of optional errors, in order.
RECURSIVE FirstError(_)
FirstError(errors) ==
    IF errors = <<>> THEN None
    ELSE IF IsSome(Head(errors)) THEN Head(errors)
    ELSE FirstError(Tail(errors))

\* The callback of rec.testCases.forEach: the message of what it throws, if
\* anything.  Indexes count from 0.
TestCaseError(testCase, index, tcIndex) ==
    IF testCase.type = "null"
    THEN Some(<<"Cannot read properties of null (reading 'title')">>)
    ELSE IF \/ ~Truthy(PropertyOf(testCase, "title"))
            \/ ~Truthy(PropertyOf(testCase, "description"))
            \/ ~ArrayIsArray(PropertyOf(testCase, "steps"))
            \/ ~Truthy(PropertyOf(testCase, "expectedResult"))
    THEN Some(<<"Invalid test case structure at recommendation ", NumberToString(index),
                ", test case ", NumberToString(tcIndex)>>)
    ELSE None

\* The callback of parsed.forEach.
RecommendationError(rec, index) ==
    IF rec.type = "null"
    THEN Some(<<"Cannot read properties of null (reading 'name')">>)
    ELSE IF \/ ~Truthy(PropertyOf(rec, "name"))
            \/ ~Truthy(PropertyOf(rec, "description"))
            \/ ~Truthy(PropertyOf(rec, "objective"))
            \/ ~ArrayIsArray(PropertyOf(rec, "testCases"))
    THEN Some(<<"Invalid recommendation structure at index ", NumberToString(index)>>)
    ELSE LET testCases == PropertyOf(rec, "testCases").elems
         IN  FirstError([k \in DOMAIN testCases |->
                            TestCaseError(testCases[k], index, k - 1)])

\* parseRecommendations without the Array.isArray check: whatever JSON.parse
\* gives that is no array is returned as it is.
parseRecommendationsAnyJson(content) ==
    LET parsed == JSONparse(cleanContent(content))
        error ==
            IF ~parsed.ok THEN Some(parsed.message)
            ELSE IF ~ArrayIsArray(parsed.val) THEN None
            ELSE FirstError([i \in DOMAIN parsed.val.elems |->
                                RecommendationError(parsed.val.elems[i], i - 1)])
    IN  IF IsSome(error)
        THEN Thrown(<<"Failed to parse recommendations: ">> \o Get(error))
        ELSE Returned(parsed.val)

parseRecommendations(content) ==
    LET parsed == JSONparse(cleanContent(content))
        error ==
            IF ~parsed.ok THEN Some(parsed.message)
            ELSE IF ~ArrayIsArray(parsed.val)
            THEN Some(<<"Response must be an array of test plan recommendations">>)
            ELSE FirstError([i \in DOMAIN parsed.val.elems |->
                                RecommendationError(parsed.val.elems[i], i - 1)])
    IN  IF IsSome(error)
        THEN Thrown(<<"Failed to parse recommendations: ">> \o Get(error))
        ELSE Returned(parsed.val)

\* What the awaited client.chat.completions.create settles with: a response
\* whose first choice may carry a content, or a rejection with an Error or
\* with some other value.
Completed(content) == [ok |-> TRUE, content |-> content, isError |-> FALSE, message |-> <<>>]
Failed(isError, message) == [ok |-> FALSE, content |-> None, isError |-> isError, message |-> message]

generateTestPlanRecommendations(settled) ==
    IF ~settled.ok
    THEN Thrown(<<"Failed to generate recommendations: ">>
                \o (IF settled.isError THEN settled.message ELSE <<"Unknown error">>))
    ELSE IF settled.content = None \/ settled.content = Some(<<>>)
    THEN Thrown(<<"Failed to generate recommendations: ",
                  "No response content received from Azure OpenAI">>)
    ELSE LET recommendations == parseRecommendations(Get(settled.content))
         IN  IF ~recommendations.ok
             THEN Thrown(<<"Failed to generate recommendations: ">> \o recommendations.message)
             ELSE recommendations

(***************************************************************************)
(* The model outputs the service is run on: JSON documents written out as  *)
(* text, bare or wrapped in a code block, and texts that are no JSON.      *)
(***************************************************************************)
MaxRecommendations == 2   \* longest array of recommendations written out

Str(word) == JString(<<word>>)

\* obj with the member of the key replaced, and obj without it.
With(obj, key, value) ==
    JObject([i \in DOMAIN obj.members |->
                IF obj.members[i].key = <<key>> THEN Member(<<key>>, value)
                ELSE obj.members[i]])
Without(obj, key) ==
    JObject(SelectSeq(obj.members, LAMBDA m : m.key # <<key>>))

BaseTestCase ==
    JObject(<<Member(<<"title">>, Str("T")),
              Member(<<"description">>, Str("D")),
              Member(<<"steps">>, JArray(<<Str("S1"), Str("S2")>>)),
              Member(<<"expectedResult">>, Str("E")),
              Member(<<"priority">>, Str("High")),
              Member(<<"testType">>, Str("Functional"))>>)

BaseCoverage ==
    JObject(<<Member(<<"functionalAreas">>, JArray(<<Str("A")>>)),
              Member(<<"riskAreas">>, JArray(<<>>)),
              Member(<<"userScenarios">>, JArray(<<Str("U")>>))>>)

BaseRecommendation ==
    JObject(<<Member(<<"name">>, Str("N")),
              Member(<<"description">>, Str("D")),
              Member(<<"objective">>, Str("O")),
              Member(<<"testCases">>, JArray(<<BaseTestCase>>)),
              Member(<<"coverage">>, BaseCoverage)>>)

\* A string with a code fence inside it.
FencedString == JString(<<"a", " ", Fence, " ", "b">>)

TestCaseVariants ==
    {BaseTestCase, JNull, Str("x")}
    \cup {Without(BaseTestCase, k) :
            k \in {"title", "description", "steps", "expectedResult", "priority", "testType"}}
    \cup {With(BaseTestCase, k, v) :
            k \in {"title", "description", "expectedResult"},
            v \in {Str(""), JNumber("42"), FencedString}}
    \cup {With(BaseTestCase, "steps", v) : v \in {Str("S1"), JArray(<<>>), JNull}}
    \cup {With(BaseTestCase, "priority", v) : v \in {Str("Critical"), Str("Urgent"), JNumber("42")}}
    \cup {With(BaseTestCase, "testType", v) : v \in {Str("Regression"), Str("Smoke")}}

RecommendationVariants ==
    {BaseRecommendation, JNull, Str("x"), JNumber("42")}
    \cup {Without(BaseRecommendation, k) :
            k \in {"name", "description", "objective", "testCases", "coverage"}}
    \cup {With(BaseRecommendation, k, v) :
            k \in {"name", "description", "objective"},
            v \in {Str(""), JNumber("42"), JNumber("0"), JNull, JBoolean(TRUE), FencedString}}
    \cup {With(BaseRecommendation, "testCases", v) : v \in {Str("x"), JArray(<<>>), JNull}}
    \cup {With(BaseRecommendation, "testCases", JArray(<<tc>>)) : tc \in TestCaseVariants}
    \cup {With(BaseRecommendation, "testCases", JArray(<<BaseTestCase, tc>>)) :
            tc \in {JNull, Without(BaseTestCase, "title"), Without(BaseTestCase, "priority")}}
    \cup {With(BaseRecommendation, "coverage", v) :
            v \in {JNull, Str("x"), JObject(<<>>), Without(BaseCoverage, "riskAreas"),
                   With(BaseCoverage, "riskAreas", Str("x"))}}

\* The arrays of at most n recommendations: valid ones, then one variant.
RECURSIVE RecommendationArrays(_)
RecommendationArrays(n) ==
    IF n = 0 THEN {<<>>}
    ELSE RecommendationArrays(n - 1)
         \cup {[i \in 1..n |-> IF i < n THEN BaseRecommendation ELSE r] :
                  r \in RecommendationVariants}

Documents ==
    {JArray(a) : a \in RecommendationArrays(MaxRecommendations)}
    \cup {BaseRecommendation, BaseTestCase, Str("x"), JNumber("42"), JNull, JObject(<<>>)}

\* texts joined with a separator
RECURSIVE Join(_, _)
Join(texts, separator) ==
    IF texts = <<>> THEN <<>>
    ELSE IF Len(texts) = 1 THEN texts[1]
    ELSE texts[1] \o separator \o Join(Tail(texts), separator)

\* The JSON text of a value.
RECURSIVE Stringify(_)
Stringify(v) ==
    CASE v.type = "string" -> <<Quote>> \o v.text \o <<Quote>>
      [] v.type = "number" -> <<v.numeral>>
      [] v.type = "boolean" -> IF v.bool THEN <<"true">> ELSE <<"false">>
      [] v.type = "null" -> <<"null">>
      [] v.type = "array" ->
            <<"[">> \o Join([i \in DOMAIN v.elems |-> Stringify(v.elems[i])], <<",">>) \o <<"]">>
      [] v.type = "object" ->
            <<"{">> \o Join([i \in DOMAIN v.members |->
                                <<Quote>> \o v.members[i].key \o <<Quote, ":", " ">>
                                \o Stringify(v.members[i].value)], <<",", "\n">>)
            \o <<"}">>

\* Texts that are no JSON: prose around the array, a cut-off array, a
\* trailing comma, a word.
BrokenTexts ==
    LET text == Stringify(JArray(<<BaseRecommendation>>))
    IN  {<<"Here", " ", "you", " ", "go", ":", "\n">> \o text,
         SubSeq(text, 1, Len(text) - 1),
         SubSeq(text, 1, Len(text) - 1) \o <<",", "]">>,
         <<"[">>, <<"sorry">>, <<Quote, "x">>, <<" ">>, <<"\n">>,
         <<"[", Quote, "a", "\n", "b", Quote, "]">>}

\* A text as the model may wrap it.
Wrapped(text) ==
    {text,
     <<Fence, "json", "\n">> \o text \o <<"\n", Fence>>,
     <<Fence, "\n">> \o text \o <<"\n", Fence, "\n">>,
     <<" ", "\n">> \o text \o <<"\n", " ">>}

Contents ==
    UNION {Wrapped(Stringify(d)) : d \in Documents}
    \cup UNION {Wrapped(t) : t \in BrokenTexts}
    \cup {<<>>}

Completions ==
    {Completed(Some(c)) : c \in Contents}
    \cup {Completed(None),
          Failed(TRUE, <<"Request timed out.">>),
          Failed(FALSE, <<>>)}

(***************************************************************************)
(* One call of generateTestPlanRecommendations: the awaited completion     *)
(* settles, the rest of the method runs, the caller takes the outcome.     *)
(***************************************************************************)
serverVars == <<adoClient, adapter, pc, exitCode, connections, testSuites, pending,
                request, response, calls, saved, fetched, overlapped>>

ChatCompletion ==
    /\ completion = None
    /\ \E settled \in Completions : completion' = Some(settled)
    /\ UNCHANGED recommended
    /\ UNCHANGED serverVars

GenerateTestPlanRecommendations ==
    /\ completion # None
    /\ recommended = None
    /\ recommended' = Some(generateTestPlanRecommendations(Get(completion)))
    /\ UNCHANGED completion
    /\ UNCHANGED serverVars

Settle ==
    /\ recommended # None
    /\ completion' = None
    /\ recommended' = None
    /\ UNCHANGED serverVars

Init ==
    /\ adoClient = "null"
    /\ adapter = "none"
    /\ pc = "start"
    /\ exitCode = None
    /\ connections = [r \in ResourceIds |-> None]
    /\ testSuites = [r \in ResourceIds |-> None]
    /\ pending = {}
    /\ request = NoRequest
    /\ response = NoResponse
    /\ calls = <<>>
    /\ saved = [r \in ResourceIds |-> None]
    /\ fetched = None
    /\ completion = None
    /\ recommended = None
    /\ overlapped = {}

Next ==
    \/ Construct
    \/ InitializeResolved
    \/ InitializeRejected
    \/ Signal
    \/ Finish
    \/ Health
    \/ Root
    \/ GetAllTestPlans
    \/ GetTestPlan
    \/ CreateTestPlan
    \/ UpdateTestPlan
    \/ DeleteTestPlan
    \/ CreateTestCase
    \/ GetTestCase
    \/ BatchTestCases
    \/ AddTestCasesToSuite
    \/ GetSuiteTestCases
    \/ GetBuildTestResults
    \/ NotFound

Spec == Init /\ [][Next]_vars

\* The registry handlers invoked as operations on the requests of their own
\* routes, on a process that starts, listens and stays up.
NextRegistry ==
    \/ Construct
    \/ InitializeResolved
    \/ Finish
    \/ SaveConnection
    \/ GetConnection
    \/ AdoPlans
    \/ AdoPlansResume
    \/ CreateIssue

SpecRegistry == Init /\ [][NextRegistry]_vars

\* The recommendation service called on its own: no route of the server
\* reaches it.
NextRecommend ==
    \/ ChatCompletion
    \/ GenerateTestPlanRecommendations
    \/ Settle

SpecRecommend == Init /\ [][NextRecommend]_vars

\* parseInt on the spellings the model uses.
ParseChecks ==
    /\ parseInt("12") = Num(12)
    /\ parseInt("-7") = Num(-7)
    /\ parseInt("abc") = NaN
    /\ parseInt("12abc") = Num(12)
    /\ parseInt("1.5") = Num(1)
    /\ parseInt("0x1f") = Num(31)
    /\ parseInt(" 12") = Num(12)
    /\ parseInt("-") = NaN
    /\ IsIntegerNumeral("12") /\ IsIntegerNumeral("-7") /\ ~IsIntegerNumeral("12abc")
    /\ ~IsIntegerNumeral("-") /\ ~IsIntegerNumeral(" 12")

(***************************************************************************)
(* Properties.                                                             *)
(***************************************************************************)
Answered(h) == request # NoRequest /\ response.handler = h

StoredSuites(r) == IF IsSome(testSuites[r]) THEN Get(testSuites[r]) ELSE <<>>

\* C1: getConnection(r) returns exactly the four fields of the most recent
\* successful saveConnection(r, ...), with resourceId r and the connectionId
\* that save returned; nothing of an earlier entry survives a later save.
C1_SaveGetRoundTrip ==
    \A r \in ResourceIds :
        (Answered("getConnection") /\ request.path[1] = r /\ IsSome(saved[r]))
            => /\ response.status = 200
               /\ response.body = Get(saved[r])
               /\ response.body.resourceId = r

C1_Witness ==
    /\ Answered("getConnection")
    /\ response.status = 200
    /\ request.path[1] = "r1"
    /\ response.body.prd = "p2"
    /\ response.body.connectionId = "c2"
    /\ IsSome(saved["r2"])

\* C2: a request matching one of the four resourceId endpoints is dispatched
\* to that endpoint's handler; the unknown-route handler answers only the
\* requests that match no listed endpoint.
C2_ResourceRoutesReachable ==
    Answered("notFound") =>
        \A i \in DOMAIN Layers :
            Layers[i].handler # "notFound"
                => ~LayerMatches(Layers[i], request.method, request.path)

\* C3: getConnection(r) answers 404, with a message that contains r, exactly
\* when no saveConnection(r, ...) has succeeded so far; an entry once saved
\* stays.
C3_NotFoundIffNeverSaved ==
    /\ \A r \in ResourceIds : IsSome(saved[r]) <=> IsSome(connections[r])
    /\ \A r \in ResourceIds :
        (Answered("getConnection") /\ request.path[1] = r)
            => /\ response.status = 404 <=> saved[r] = None
               /\ response.status = 404 => r \in Range(response.body.message)

C3_Witness ==
    /\ Answered("getConnection")
    /\ request.path[1] = "r2"
    /\ response.status = 404
    /\ IsSome(saved["r1"])

\* A batch request that got past the readiness gate.
BatchHandled ==
    /\ request # NoRequest
    /\ request.method = "POST"
    /\ request.path = <<"api", "testcases", "batch">>
    /\ response.handler # "ensureClientInitialized"

PositiveInteger(v) == v.type = "number" /\ v.twice > 0 /\ v.twice % 2 = 0

Rejected(text) ==
    /\ response.handler = "batchTestCases"
    /\ response.status = 400
    /\ response.body.error = text

\* C4: the batch fetch reports the first violated rule only, in the order
\* not-an-array-or-empty, more than 100 entries, an entry that is no positive
\* integer; 1 to 100 positive integers pass all three.
C4_BatchValidationOrder ==
    BatchHandled =>
        LET ids == request.body.ids
        IN  IF ids.type # "array" \/ ids.elems = <<>>
            THEN Rejected("ids array is required and cannot be empty")
            ELSE IF Len(ids.elems) > 100
            THEN Rejected("Maximum 100 test case IDs allowed per request")
            ELSE IF \E i \in DOMAIN ids.elems : ~PositiveInteger(ids.elems[i])
            THEN Rejected("All IDs must be positive integers")
            ELSE response.handler = "batchTestCases" => response.status = 200

C4_Witness ==
    /\ BatchHandled
    /\ Len(request.body.ids.elems) = 101
    /\ \E i \in DOMAIN request.body.ids.elems : ~PositiveInteger(request.body.ids.elems[i])
    /\ Rejected("Maximum 100 test case IDs allowed per request")

\* C5: a batch request rejected with 400 reaches no adapter method; an
\* accepted one calls the adapter's batch method once, with the requested ids
\* in the requested order.
C5_BatchAllOrNothing ==
    BatchHandled =>
        IF response.handler = "batchTestCases" /\ response.status = 400
        THEN calls = <<>>
        ELSE calls = <<Call("getMultipleTestCaseDetails", request.body.ids.elems)>>

C5_Witness ==
    /\ BatchHandled
    /\ response.status = 200
    /\ request.body.ids.elems = <<JNum(4), JNum(2)>>
    /\ calls = <<Call("getMultipleTestCaseDetails", <<JNum(4), JNum(2)>>)>>

NumericIdHandlers ==
    {"getTestPlan", "updateTestPlan", "deleteTestPlan", "getTestCase",
     "addTestCasesToSuite", "getSuiteTestCases", "getBuildTestResults"}

\* The path parameters of the request under the pattern of handler h.
PathParams(h, path) ==
    {path[i] : i \in {j \in DOMAIN path : LayerOf(h).pattern[j] \in ParamNames}}

\* C6: on every numeric-id endpoint a path id that is no integer numeral is
\* answered with 400 and no adapter method is called.
C6_NonNumeralRejected ==
    \A h \in NumericIdHandlers :
        (/\ request # NoRequest
         /\ Route(request.method, request.path) = h
         /\ \E v \in PathParams(h, request.path) : ~IsIntegerNumeral(v))
            => response.status = 400 /\ calls = <<>>

GatedHandlers ==
    {"getAllTestPlans", "getTestPlan", "createTestPlan", "updateTestPlan",
     "deleteTestPlan", "createTestCase", "getTestCase", "batchTestCases",
     "addTestCasesToSuite", "getSuiteTestCases", "getBuildTestResults", "adoPlans"}

\* C7: until initialize() has completed successfully, every request handled
\* by a gated route is answered with 500 and reaches no adapter method.
C7_GateRejectsUntilInitialized ==
    (/\ request # NoRequest
     /\ adapter # "ready"
     /\ Route(request.method, request.path) \in GatedHandlers)
        => /\ response.handler = "ensureClientInitialized"
           /\ response.status = 500
           /\ calls = <<>>

\* One step of the process, as C8 reads it.
C8_Step ==
    /\ adapter' = "failed" => pc' = "exited" /\ exitCode' = Some(1)
    /\ adapter = "failed" => UNCHANGED vars
    /\ (request' # NoRequest /\ request'.via = "listener") => adapter' = "ready"

\* C8: when the adapter's construction or initialize() fails the process
\* exits with code 1: it never listens, handles nothing afterwards, and
\* whatever the listener serves finds the adapter initialized.
C8_InitFailureIsFatal == [][C8_Step]_vars

C8_Witness ==
    /\ adapter = "failed"
    /\ adoClient = "client"
    /\ pc = "exited"
    /\ exitCode = Some(1)

\* A step in which createIssue runs on a saved connection with title and body.
CreateIssueRuns ==
    /\ request = NoRequest
    /\ request' # NoRequest
    /\ response'.handler = "createIssue"
    /\ IsSome(connections[request'.path[1]])
    /\ ~Falsy(request'.body.title)
    /\ ~Falsy(request'.body.body)

Matches(suites, testCaseId) == \E i \in DOMAIN suites : suites[i].testCaseId = testCaseId

\* The test case as createIssue leaves it in a matching suite.
Marked(testCase, issueId) ==
    [name |-> testCase.name, steps |-> testCase.steps,
     issueId |-> Some(issueId), status |-> Some("Creating")]

\* One step of the process, as C9 reads it.
C9_Step ==
    LET r == request'.path[1]
        testCaseId == request'.path[3]
        old == StoredSuites(r)
        new == Get(testSuites'[r])
    IN  (CreateIssueRuns /\ Matches(old, testCaseId))
            => /\ response'.status = 200
               /\ IsSome(testSuites'[r])
               /\ Len(new) = Len(old)
               /\ \E issueId \in IssueIds : \A i \in DOMAIN old :
                    IF old[i].testCaseId = testCaseId
                    THEN /\ new[i].name = old[i].name
                         /\ new[i].testCaseId = testCaseId
                         /\ DOMAIN new[i].testCases = DOMAIN old[i].testCases
                         /\ \A k \in DOMAIN old[i].testCases :
                              new[i].testCases[k] = Marked(old[i].testCases[k], issueId)
                    ELSE new[i] = old[i]

\* C9: with a suite of the path testCaseId stored for r, createIssue gives
\* every test case of such a suite the one issueId of the call and status
\* "Creating", keeps the number of suites and leaves the other suites alone.
C9_MatchMarksSuite == [][C9_Step]_vars

C9_Witness ==
    /\ Answered("createIssue")
    /\ response.status = 200
    /\ LET suites == response.body.suites
       IN  /\ suites = StoredSuites(request.path[1])
           /\ \E i, j \in DOMAIN suites :
                /\ suites[i].testCaseId = request.path[3]
                /\ suites[i].name # <<"GitHub Issue Suite">>
                /\ suites[i].testCases[1].issueId = Some("i2")
                /\ suites[j].testCaseId # request.path[3]
                /\ suites[j].testCases[1].issueId = None

\* One step of the process, as C10 reads it.
C10_Step ==
    LET r == request'.path[1]
        testCaseId == request'.path[3]
        old == StoredSuites(r)
        new == Get(testSuites'[r])
    IN  (CreateIssueRuns /\ ~Matches(old, testCaseId))
            => /\ response'.status = 200
               /\ IsSome(testSuites'[r])
               /\ Len(new) = Len(old) + 1
               /\ \A i \in DOMAIN old : new[i] = old[i]
               /\ \E issueId \in IssueIds :
                    new[Len(new)] =
                        [name |-> <<"GitHub Issue Suite">>,
                         testCaseId |-> testCaseId,
                         testCases |-> << [name |-> <<Get(request'.body.title)>>,
                                           steps |-> <<Get(request'.body.body)>>,
                                           issueId |-> Some(issueId),
                                           status |-> Some("Creating")] >>]

\* C10: with no suite of the path testCaseId stored for r (nothing stored
\* included), createIssue appends one suite "GitHub Issue Suite" of that
\* testCaseId at the end, holding the one test case (title, [body],
\* "Creating", the issueId of the call); the suites stored before keep their
\* places and contents.
C10_NoMatchAppendsSuite == [][C10_Step]_vars

C10_Witness ==
    /\ Answered("createIssue")
    /\ response.status = 200
    /\ LET suites == StoredSuites(request.path[1])
       IN  /\ Len(suites) = 2
           /\ suites[1].name = <<"Plan A">>
           /\ suites[1].testCaseId # request.path[3]
           /\ suites[2].name = <<"GitHub Issue Suite">>
           /\ suites[2].testCaseId = request.path[3]
           /\ suites[2].testCases[1].issueId = Some("i1")

\* A step in which createIssue starts on a request of its route.
CreateIssueInvoked ==
    /\ request = NoRequest
    /\ request' # NoRequest
    /\ response'.handler = "createIssue"

\* One step of the process, as C11 reads it.
C11_Step ==
    LET r == request'.path[1]
        b == request'.body
    IN  CreateIssueInvoked =>
            IF connections[r] = None
            THEN /\ response'.status = 404
                 /\ UNCHANGED <<connections, testSuites>>
            ELSE IF b.title = None \/ b.title = Some("") \/ b.body = None \/ b.body = Some("")
            THEN /\ response'.status = 400
                 /\ UNCHANGED <<connections, testSuites>>
            ELSE response'.status = 200

\* C11: createIssue answers 404 whenever no connection is saved for r,
\* whatever the body holds, and 400 when a connection is saved but title or
\* body is missing or empty; either way both registries stay as they were.
C11_CreateIssueErrors == [][C11_Step]_vars

C11_Witness ==
    /\ Answered("createIssue")
    /\ response.status = 404
    /\ request.path[1] = "r2"
    /\ request.body.title = Some("T")
    /\ request.body.body = Some("B")
    /\ connections["r2"] = None
    /\ IsSome(connections["r1"])
    /\ IsSome(testSuites["r1"])

\* ado_plans answered after its vendor fetch resolved.
AdoPlansFetched ==
    /\ Answered("adoPlans")
    /\ IsSome(fetched)
    /\ Get(fetched).ok

\* The sample test case of a synthesized suite carries no issueId and no status.
Unmarked(testCase) == testCase.issueId = None /\ testCase.status = None

AdoPlansStep ==
    /\ request = NoRequest
    /\ request' # NoRequest
    /\ response'.handler = "adoPlans"

\* One step of the process, as C13 reads it.
C13_Step ==
    LET r == request'.path[1]
    IN  AdoPlansStep =>
            /\ \A q \in ResourceIds \ {r} : testSuites'[q] = testSuites[q]
            /\ IF response'.status = 200
               THEN /\ IsSome(fetched') /\ Get(fetched').ok
                    /\ testSuites'[r] = Some(response'.body.suites)
                    /\ testSuites'[r] = Some(SuitesOfPlans(Get(fetched').plans))
                    /\ \A i \in DOMAIN response'.body.suites :
                        LET suite == response'.body.suites[i]
                        IN  /\ suite.name # <<"GitHub Issue Suite">>
                            /\ \A k \in DOMAIN suite.testCases : Unmarked(suite.testCases[k])
               ELSE testSuites'[r] = testSuites[r]

\* C13: a successful ado_plans replaces the list stored for r by the list it
\* synthesized, whatever was stored: no issueId, no status and no "GitHub
\* Issue Suite" of an earlier createIssue is left; an ado_plans that answers
\* 404, or whose vendor fetch fails, leaves the stored list as it was.
C13_AdoPlansOverwrites == [][C13_Step]_vars

C13_Witness ==
    /\ AdoPlansFetched
    /\ response.status = 200
    /\ Len(Get(fetched).plans) = 2
    /\ Len(response.body.suites) = 2
    /\ testSuites[request.path[1]] = Some(response.body.suites)
    /\ \A i \in DOMAIN response.body.suites :
         Unmarked(response.body.suites[i].testCases[1])

\* A request on the recommendation path has been handled.
RecommendationsRequested ==
    /\ request # NoRequest
    /\ request.method = "POST"
    /\ request.path = <<"api", "testplans", "recommendations">>

\* C14: POST /api/testplans/recommendations is answered by a handler of its
\* own, never by the unknown-route handler: without prd in the body the
\* answer is 400 "PRD (Product Requirements Document) is required", and with
\* prd but no testPlanId it is no 404 either.
C14_RecommendationsAnswered ==
    RecommendationsRequested =>
        /\ response.handler # "notFound"
        /\ response.status # 404
        /\ request.body.prd = None =>
             /\ response.status = 400
             /\ response.body.error = "PRD (Product Requirements Document) is required"

\* generateTestPlanRecommendations has settled on a completion that carried
\* a content.
Generated ==
    /\ IsSome(completion)
    /\ IsSome(recommended)
    /\ Get(completion).ok
    /\ IsSome(Get(completion).content)

\* The model output of the call that settled, and what came of it.
Output == Get(Get(completion).content)
Outcome == Get(recommended)

\* The message ends with the prefix and the underlying message behind it.
EndsWith(message, prefix, underlying) ==
    \E i \in DOMAIN message :
        /\ message[i] = prefix
        /\ SubSeq(message, i + 1, Len(message)) = underlying

\* The output, fences aside, is no JSON array; and the error that says so.
NotAnArray(text) ==
    LET parsed == JSONparse(cleanContent(text))
    IN  ~parsed.ok \/ parsed.val.type # "array"

Underlying(text) ==
    LET parsed == JSONparse(cleanContent(text))
    IN  IF ~parsed.ok THEN parsed.message
        ELSE <<"Response must be an array of test plan recommendations">>

\* C15 as claimed: every model output that is no JSON array, be it invalid
\* JSON or valid JSON of another kind, makes the call fail with a message
\* that contains "Failed to parse recommendations" followed by the
\* underlying message, and nothing is returned.
C15_NonArrayRejected ==
    (Generated /\ NotAnArray(Output)) =>
        /\ ~Outcome.ok
        /\ Outcome.value = JUndefined
        /\ EndsWith(Outcome.message, "Failed to parse recommendations: ", Underlying(Output))

\* C15 amended: the same for every model output that is not empty; an empty
\* output never reaches the parser and fails with "No response content
\* received from Azure OpenAI" instead.
C15_NonEmptyNonArrayRejected ==
    (Generated /\ NotAnArray(Output)) =>
        /\ ~Outcome.ok
        /\ Outcome.value = JUndefined
        /\ IF Output = <<>>
           THEN Outcome.message = <<"Failed to generate recommendations: ",
                                    "No response content received from Azure OpenAI">>
           ELSE EndsWith(Outcome.message, "Failed to parse recommendations: ",
                         Underlying(Output))

C15_Witness ==
    /\ Generated
    /\ Output = <<Fence, "json", "\n">> \o Stringify(BaseRecommendation) \o <<"\n", Fence>>
    /\ ~Outcome.ok
    /\ Outcome.message = <<"Failed to generate recommendations: ",
                           "Failed to parse recommendations: ",
                           "Response must be an array of test plan recommendations">>

HoldsString(v, key) == PropertyOf(v, key).type = "string"
HoldsArray(v, key) == PropertyOf(v, key).type = "array"
Holds(v, key) == PropertyOf(v, key).type \notin {"undefined", "null"}

\* The shape C16 asks of a test case and of a recommendation.
TestCaseShaped(testCase) ==
    /\ testCase.type = "object"
    /\ HoldsString(testCase, "title")
    /\ HoldsString(testCase, "description")
    /\ HoldsArray(testCase, "steps")
    /\ Holds(testCase, "expectedResult")

RecommendationShaped(rec) ==
    /\ rec.type = "object"
    /\ HoldsString(rec, "name")
    /\ HoldsString(rec, "description")
    /\ HoldsString(rec, "objective")
    /\ HoldsArray(rec, "testCases")
    /\ \A k \in DOMAIN PropertyOf(rec, "testCases").elems :
         TestCaseShaped(PropertyOf(rec, "testCases").elems[k])

\* C16: the parse succeeds only if every element of the array has name,
\* description and objective that are strings and testCases that is an
\* array, and every test case has title and description that are strings, a
\* steps array and an expectedResult: one element or test case without that
\* shape makes the whole parse fail.
C16_ShapeValidated ==
    (Generated /\ Outcome.ok) =>
        /\ Outcome.value.type = "array"
        /\ \A i \in DOMAIN Outcome.value.elems : RecommendationShaped(Outcome.value.elems[i])

\* The text with a fence marker at its very start and one at its very end
\* taken off, and nothing else: what C17 says reaches the parser.
WithoutOuterFences(text) ==
    LET t == trim(text)
        front == IF Len(t) >= 2 /\ t[1] = Fence /\ t[2] = "json" THEN SubSeq(t, 3, Len(t))
                 ELSE IF Len(t) >= 1 /\ t[1] = Fence THEN SubSeq(t, 2, Len(t))
                 ELSE t
        back == IF Len(front) >= 1 /\ front[Len(front)] = Fence
                THEN SubSeq(front, 1, Len(front) - 1)
                ELSE front
    IN  trim(back)

\* C17: only the fence markers at the very start and the very end of the
\* model output are removed: what the call returns is the value of the text
\* between them, character for character, a fence inside a JSON string
\* value included.
C17_OnlyOuterFencesStripped ==
    (Generated /\ Outcome.ok) =>
        /\ JSONparse(WithoutOuterFences(Output)).ok
        /\ Outcome.value = JSONparse(WithoutOuterFences(Output)).val

Priorities == {"Critical", "High", "Medium", "Low"}
TestTypes == {"Functional", "Integration", "Performance", "Security", "Usability", "Regression"}

\* The member of the key holds one of the words.
HoldsOneOf(v, key, words) ==
    /\ HoldsString(v, key)
    /\ \E w \in words : PropertyOf(v, key).text = <<w>>

\* The data model of a recommendation, as far as C18 names it.
ConformsToDataModel(rec) ==
    /\ HoldsArray(rec, "testCases")
    /\ \A k \in DOMAIN PropertyOf(rec, "testCases").elems :
         LET testCase == PropertyOf(rec, "testCases").elems[k]
         IN  /\ HoldsOneOf(testCase, "priority", Priorities)
             /\ HoldsOneOf(testCase, "testType", TestTypes)
    /\ PropertyOf(rec, "coverage").type = "object"
    /\ HoldsArray(PropertyOf(rec, "coverage"), "functionalAreas")
    /\ HoldsArray(PropertyOf(rec, "coverage"), "riskAreas")
    /\ HoldsArray(PropertyOf(rec, "coverage"), "userScenarios")

\* C18: every recommendation the call returns has, in each test case, a
\* priority among Critical, High, Medium, Low and a testType among
\* Functional, Integration, Performance, Security, Usability, Regression,
\* and a coverage with its three arrays.
C18_ReturnedConformToDataModel ==
    (Generated /\ Outcome.ok) =>
        \A i \in DOMAIN Outcome.value.elems : ConformsToDataModel(Outcome.value.elems[i])

\* A request on an /api path was answered after its adapter call rejected.
VendorErrorOnApi ==
    /\ request # NoRequest
    /\ request.path # <<>>
    /\ request.path[1] = "api"
    /\ request.path # <<"api", "testplans", "recommendations">>
    /\ IsSome(fetched)
    /\ ~Get(fetched).ok

\* C19 as claimed: on every /api route an error thrown by the vendor adapter
\* reaches the error formatter and is answered with 500 and the body
\* {error, message, timestamp, path}, whatever the error carries.
C19_VendorErrorIs500 ==
    VendorErrorOnApi =>
        /\ response.handler = "errorHandler"
        /\ response.status = 500
        /\ DOMAIN response.body = {"error", "message", "timestamp", "path"}

\* C19 amended: such an error reaches the error formatter and is answered
\* with the body {error, message, timestamp, path}; the status is the
\* statusCode the error carries, when it carries one that is not 0, and 500
\* otherwise; the message is the error's own, or "Internal server error"
\* when it has none.
C19_VendorErrorFormatted ==
    VendorErrorOnApi =>
        LET error == Get(fetched).error
        IN  /\ response.handler = "errorHandler"
            /\ DOMAIN response.body = {"error", "message", "timestamp", "path"}
            /\ response.body.path = request.path
            /\ response.status = IF error.statusCode # None /\ error.statusCode # Some(0)
                                 THEN error.statusCode[1] ELSE 500
            /\ response.body.message = IF error.message # None /\ error.message # Some("")
                                       THEN error.message ELSE <<"Internal server error">>

C19_Witness ==
    /\ VendorErrorOnApi
    /\ Get(fetched).error.statusCode = Some(404)
    /\ response.handler = "errorHandler"
    /\ response.status = 404
    /\ response.body.message = <<"Internal server error">>

\* C20: every request rejected by a route's validation is answered with 400
\* and a body that holds both an error field and a message field.
C20_ValidationErrorHasMessage ==
    (request # NoRequest /\ response.status = 400) =>
        {"error", "message"} \subseteq DOMAIN response.body

\* A step of a handler that holds no await: createIssue or saveConnection.
AtomicStep ==
    /\ request = NoRequest
    /\ request' # NoRequest
    /\ response'.handler \in {"createIssue", "saveConnection"}

\* A step in which a suspended ado_plans resumes, createIssue having stored a
\* list for its resourceId during the suspension.
AdoPlansResumesOverlapped ==
    /\ request = NoRequest
    /\ request' \in pending
    /\ request' \notin pending'
    /\ request' \in overlapped

\* Some test case of the list carries an issueId or a status.
HoldsMarks(suites) ==
    \E i \in DOMAIN suites : \E k \in DOMAIN suites[i].testCases :
        ~Unmarked(suites[i].testCases[k])

\* One step of the process, as C21 reads it.
C21_Step ==
    /\ AtomicStep =>
          /\ response'.status # 0
          /\ pending' = pending
    /\ AdoPlansResumesOverlapped =>
          LET r == request'.path[1]
          IN  /\ IsSome(testSuites[r])
              /\ HoldsMarks(Get(testSuites[r]))
              /\ IF Get(fetched').ok
                 THEN /\ response'.status = 200
                      /\ testSuites'[r] = Some(SuitesOfPlans(Get(fetched').plans))
                      /\ response'.body.suites = Get(testSuites'[r])
                      /\ ~HoldsMarks(Get(testSuites'[r]))
                      /\ \A i \in DOMAIN Get(testSuites'[r]) :
                           Get(testSuites'[r])[i].name # <<"GitHub Issue Suite">>
                 ELSE testSuites'[r] = testSuites[r]

C22_SuitesOnlyWithConnection ==
    \A r \in ResourceIds : IsSome(testSuites[r]) => IsSome(connections[r])

C22_Witness ==
    /\ Answered("createIssue")
    /\ request.path[1] = "r2"
    /\ response.status = 404
    /\ connections["r2"] = None
    /\ testSuites["r2"] = None
    /\ IsSome(connections["r1"])
    /\ IsSome(testSuites["r1"])
    /\ pending # {}

\* The suites createIssue appended: at most one of them for a testCaseId.
OneIssueSuitePerTestCase(suites) ==
    \A i, j \in DOMAIN suites :
        (/\ suites[i].name = <<"GitHub Issue Suite">>
         /\ suites[j].name = <<"GitHub Issue Suite">>
         /\ suites[i].testCaseId = suites[j].testCaseId) => i = j

\* One step of the process, as C23 reads it.
C23_Step ==
    /\ CreateIssueRuns =>
          LET r == request'.path[1]
              testCaseId == request'.path[3]
              old == StoredSuites(r)
              new == Get(testSuites'[r])
          IN  /\ IsSome(testSuites'[r])
              /\ Len(new) <= Len(old) + 1
              /\ Matches(new, testCaseId)
              /\ Matches(old, testCaseId) =>
                    /\ Len(new) = Len(old)
                    /\ \E issueId \in IssueIds : \A i \in DOMAIN old :
                         /\ new[i].name = old[i].name
                         /\ new[i].testCaseId = old[i].testCaseId
                         /\ old[i].testCaseId = testCaseId =>
                              \A k \in DOMAIN new[i].testCases :
                                  /\ new[i].testCases[k].issueId = Some(issueId)
                                  /\ new[i].testCases[k].status = Some("Creating")
    /\ response'.handler # "adoPlans" =>
          \A r \in ResourceIds :
              LET old == StoredSuites(r)
                  new == IF IsSome(testSuites'[r]) THEN Get(testSuites'[r]) ELSE <<>>
              IN  /\ Len(new) >= Len(old)
                  /\ \A i \in DOMAIN old : new[i].testCaseId = old[i].testCaseId
    /\ \A r \in ResourceIds :
          IsSome(testSuites'[r]) => OneIssueSuitePerTestCase(Get(testSuites'[r]))

\* C23: a createIssue for (r, testCaseId) leaves a suite of that testCaseId
\* stored and adds at most one suite; every step other than one of ado_plans
\* keeps the stored suites and their testCaseIds in place, so a later
\* createIssue for the same pair finds the suite, gives its test cases the new
\* issueId and appends nothing: no list ever holds two "GitHub Issue Suite"
\* entries of one testCaseId.
C23_RepeatAppendsOnce == [][C23_Step]_vars

C23_Witness ==
    /\ Answered("createIssue")
    /\ response.status = 200
    /\ request.path[3] = "1"
    /\ LET suites == StoredSuites(request.path[1])
       IN  /\ Len(suites) = 2
           /\ suites[1].name = <<"GitHub Issue Suite">>
           /\ suites[1].testCaseId = "1"
           /\ suites[1].testCases[1].issueId = Some("i2")
           /\ suites[2].name = <<"GitHub Issue Suite">>
           /\ suites[2].testCaseId = "x"
           /\ suites[2].testCases[1].issueId = Some("i1")

\* A step of one of the three registry operations that write.
RegistryStep ==
    /\ request = NoRequest
    /\ request' # NoRequest
    /\ response'.handler \in {"saveConnection", "adoPlans", "createIssue"}

\* One step of the process, as C24 reads it.
C24_Step ==
    RegistryStep =>
        LET a == request'.path[1]
        IN  /\ \A b \in ResourceIds \ {a} :
                 /\ connections'[b] = connections[b]
                 /\ testSuites'[b] = testSuites[b]
            /\ response'.handler = "saveConnection" => testSuites'[a] = testSuites[a]

\* C24: saveConnection, ado_plans (its start and its resumption) and
\* createIssue invoked with resourceId A leave the connection and the suite
\* list of every other resourceId as they were, and saveConnection leaves the
\* suite list of A itself as it was.
C24_IsolatedPerKey == [][C24_Step]_vars

C24_Witness ==
    /\ Answered("saveConnection")
    /\ response.status = 200
    /\ request.path[1] = "r1"
    /\ IsSome(saved["r1"])
    /\ Get(connections["r1"]).connectionId = "c2"
    /\ IsSome(testSuites["r1"])
    /\ Len(Get(testSuites["r1"])) = 2
    /\ IsSome(connections["r2"])
    /\ Get(connections["r2"]).github_url = "g2"
    /\ IsSome(testSuites["r2"])

\* The request handled last arrived through the listener.
ThroughListener == request # NoRequest /\ request.via = "listener"

\* C25: app.listen runs only after initialize() has completed successfully:
\* whenever the listener is open, and for every request that arrived through
\* it, the adapter is initialized and adoClient is set, so the readiness gate
\* did not answer it with 500 and /health did not report clientInitialized
\* false.
C25_ListenerAfterInitialize ==
    /\ pc = "listening" => (adapter = "ready" /\ adoClient = "client")
    /\ ThroughListener =>
          /\ adapter = "ready"
          /\ adoClient = "client"
          /\ response.handler # "ensureClientInitialized"
          /\ response # GateResponse
          /\ response.handler = "health" => response.body.clientInitialized = TRUE

C25_Witness ==
    /\ ThroughListener
    /\ Route(request.method, request.path) \in GatedHandlers
    /\ response.status = 200
    /\ calls # <<>>
    /\ adapter = "ready"
    /\ pc = "listening"

=============================================================================
